---- MODULE Spec2Model ----
(***************************************************************************)
(* Document rendering pipeline of fastfill-go: template lookup, ad-hoc     *)
(* custom fields, formatting overrides, page grouping, background          *)
(* resolution, HTML composition (legacy single-page and multi-page) and    *)
(* the hand-over to the rasterizer.                                        *)
(*                                                                         *)
(* Text is modelled as a sequence of one-character strings, so escaping,   *)
(* prefixes, splitting and number formatting are computed, not assumed.    *)
(***************************************************************************)
EXTENDS Integers, Sequences, FiniteSets, TLC

VARIABLES
    templates,   \* templates table: template id -> [SVGBackground]
    fieldRows,   \* template_fields table, rows in primary-key order
    svgRows,     \* svg_files table, rows in primary-key order
    gcs,         \* asset store: object name -> stored bytes
    req,         \* the render request that has arrived
    html,        \* what generateHTML returned for it
    resp,        \* the HTTP response sent for it, NoResponse while it is pending
    calls,       \* the GetSVGContent calls made for it, each with its outcome
    jobs,        \* concurrent generate-pdf requests: worker -> its locals and position
    engines,     \* headless-engine resources ever acquired, in order: [kind, owner, live]
    submissions, \* form_submissions table: submission id -> its row
    clock,       \* time.Now().Unix()
    autoInc,     \* the next auto-increment key of svg_files and of template_fields
    writes       \* uploads, deletions and updates under way: caller -> locals and position

vars == <<templates, fieldRows, svgRows, gcs, req, html, resp, calls, jobs, engines,
          submissions, clock, autoInc, writes>>

(***************************************************************************)
(* Bounds of the model.                                                    *)
(***************************************************************************)
MaxFields == 2      \* stored fields per template
MaxPage == 2        \* highest page index of a field or a background
MaxValueFields == 2 \* stored fields per template where the values vary
MaxStyledFields == 2 \* stored fields per template where the formatting varies

(***************************************************************************)
(* Generic helpers.                                                        *)
(***************************************************************************)
Max(S) == CHOOSE x \in S : \A y \in S : y <= x

Range(s) == {s[i] : i \in 1..Len(s)}

SeqsUpTo(S, n) == UNION {[1..k -> S] : k \in 0..n}

RECURSIVE Flatten(_)
Flatten(ss) == IF ss = <<>> THEN <<>> ELSE Head(ss) \o Flatten(Tail(ss))

\* strings.HasPrefix
HasPrefix(s, p) == Len(s) >= Len(p) /\ SubSeq(s, 1, Len(p)) = p

\* strings.TrimPrefix
TrimPrefix(s, p) == IF HasPrefix(s, p) THEN SubSeq(s, Len(p) + 1, Len(s)) ELSE s

\* strings.Contains
Contains(s, p) ==
    \E i \in 1..(Len(s) + 1) :
        i + Len(p) - 1 <= Len(s) /\ SubSeq(s, i, i + Len(p) - 1) = p

Digits == <<"0", "1", "2", "3", "4", "5", "6", "7", "8", "9">>

DigitVal(c) == (CHOOSE i \in 1..10 : Digits[i] = c) - 1

IsDigit(c) == c \in Range(Digits)

\* fmt's %d
RECURSIVE ItoaNat(_)
ItoaNat(n) == IF n < 10 THEN <<Digits[n + 1]>>
              ELSE ItoaNat(n \div 10) \o <<Digits[(n % 10) + 1]>>

Itoa(n) == IF n < 0 THEN <<"-">> \o ItoaNat(0 - n) ELSE ItoaNat(n)

RECURSIVE DigitsVal(_, _)
DigitsVal(s, acc) == IF s = <<>> THEN acc
                     ELSE DigitsVal(Tail(s), acc * 10 + DigitVal(Head(s)))

\* strconv.Atoi: an optional sign and at least one digit, nothing else
Atoi(s) ==
    LET body == IF s # <<>> /\ Head(s) \in {"-", "+"} THEN Tail(s) ELSE s
        ok == body # <<>> /\ \A i \in 1..Len(body) : IsDigit(body[i])
        mag == IF ok THEN DigitsVal(body, 0) ELSE 0
    IN [ok |-> ok,
        n |-> IF s # <<>> /\ Head(s) = "-" THEN 0 - mag ELSE mag]

(***************************************************************************)
(* Asset store and svg_files lookups (UploadService).                      *)
(***************************************************************************)
\* the template the modelled requests are about, and an id no template has
T1 == <<"T", "1">>

T9 == <<"T", "9">>

PagePrefix == <<"p", "a", "g", "e", "_">>

NoRow == [ID |-> 0, TemplateID |-> <<>>, PageIndex |-> 0, Filename |-> <<>>,
          OriginalName |-> <<>>, GCSPath |-> <<>>, CreatedAt |-> 0]

NoBytes == <<>>

DataScheme == <<"d", "a", "t", "a", ":">>

\* base64.StdEncoding.EncodeToString: an injective code of the bytes, which
\* nothing in the pipeline decodes
Base64(content) == <<"b64">> \o content

\* "data:image/svg+xml;base64,%s"
DataURI(content) == DataScheme \o <<"image/svg+xml;base64,">> \o Base64(content)

\* a fetch that reads the body whatever the status
fetchSVGContentAnyStatus(svgFile, failing) ==
    IF svgFile.GCSPath \in DOMAIN gcs
    THEN [err |-> FALSE, content |-> gcs[svgFile.GCSPath],
          answer |-> IF svgFile.GCSPath \in failing THEN "error" ELSE "200",
          path |-> svgFile.GCSPath]
    ELSE [err |-> TRUE, content |-> NoBytes,
          answer |-> "error", path |-> svgFile.GCSPath]

\* the signed-URL GET: any answer but 200 with a body is an error
fetchSVGContent(svgFile, failing) ==
    IF svgFile.GCSPath \in DOMAIN gcs /\ svgFile.GCSPath \notin failing
    THEN [err |-> FALSE, content |-> gcs[svgFile.GCSPath],
          answer |-> "200", path |-> svgFile.GCSPath]
    ELSE [err |-> TRUE, content |-> NoBytes,
          answer |-> "error", path |-> svgFile.GCSPath]

RowsOf(templateID) == SelectSeq(svgRows, LAMBDA r : r.TemplateID = templateID)

\* the first row by primary key
Oldest(rows) == IF rows = <<>> THEN NoRow ELSE Head(rows)

\* ORDER BY created_at DESC ... First
MostRecent(rows) ==
    IF rows = <<>> THEN NoRow
    ELSE CHOOSE r \in Range(rows) :
            \A q \in Range(rows) :
                q.CreatedAt < r.CreatedAt \/ (q.CreatedAt = r.CreatedAt /\ q.ID >= r.ID)

GetSVGFile(templateID) == MostRecent(RowsOf(templateID))

UpperCase == <<"A", "B", "C", "D", "E", "F", "G", "H", "I", "J", "K", "L", "M",
               "N", "O", "P", "Q", "R", "S", "T", "U", "V", "W", "X", "Y", "Z">>

LowerCase == <<"a", "b", "c", "d", "e", "f", "g", "h", "i", "j", "k", "l", "m",
               "n", "o", "p", "q", "r", "s", "t", "u", "v", "w", "x", "y", "z">>

\* the weight of a character under the column's collation: the connection
\* asks for utf8mb4 and names no collation, and the server's collations for
\* it (utf8mb4_general_ci, utf8mb4_0900_ai_ci) compare letters without case
Fold(c) ==
    IF c \in Range(UpperCase)
    THEN LowerCase[CHOOSE i \in 1..Len(UpperCase) : UpperCase[i] = c]
    ELSE c

\* SQL's s LIKE pattern: % stands for any text, _ for any one character
Like(s, pattern) ==
    LET \* whether s from position i on matches the pattern from position j on
        m[i \in 1..(Len(s) + 1), j \in 1..(Len(pattern) + 1)] ==
            IF j > Len(pattern) THEN i > Len(s)
            ELSE IF pattern[j] = "%"
            THEN m[i, j + 1] \/ (i <= Len(s) /\ m[i + 1, j])
            ELSE /\ i <= Len(s)
                 /\ pattern[j] = "_" \/ Fold(s[i]) = Fold(pattern[j])
                 /\ m[i + 1, j + 1]
    IN  m[1, 1]

\* a lookup that ignores the identifier
GetSVGContentMostRecent(templateID, svgID, failing) ==
    IF GetSVGFile(templateID) = NoRow
    THEN [err |-> TRUE, content |-> NoBytes, answer |-> "none", path |-> <<>>]
    ELSE fetchSVGContent(GetSVGFile(templateID), failing)

GetSVGContent(templateID, svgID, failing) ==
    LET \* "Find SVG file for specific page"
        PageLookup(isPage, parsed) ==
            IF isPage /\ parsed.ok
            THEN SelectSeq(RowsOf(templateID), LAMBDA r : r.PageIndex = parsed.n)
            ELSE <<>>
        \* "Look for SVG file with matching filename containing the svgID"
        NameLookup(isPage, pattern) ==
            IF svgID # <<>> /\ ~isPage
            THEN MostRecent(SelectSeq(RowsOf(templateID),
                                      LAMBDA r : \/ Like(r.Filename, pattern)
                                                 \/ Like(r.OriginalName, pattern)))
            ELSE NoRow
        \* "If no specific SVG found or no svgID provided, get the most recent one"
        Found(pageRows, named, recent) ==
            IF pageRows # <<>> THEN Head(pageRows)
            ELSE IF named # NoRow THEN named
            ELSE recent
        Lookup(isPage) ==
            Found(PageLookup(isPage, Atoi(TrimPrefix(svgID, PagePrefix))),
                  NameLookup(isPage, <<"%">> \o svgID \o <<"%">>),
                  GetSVGFile(templateID))
        Fetch(svgFile) ==
            IF svgFile = NoRow
            THEN [err |-> TRUE, content |-> NoBytes, answer |-> "none", path |-> <<>>]
            ELSE fetchSVGContent(svgFile, failing)
    IN  Fetch(Lookup(HasPrefix(svgID, PagePrefix)))

\* one GetSVGContent call as the log keeps it
Call(templateID, svgID, failing) ==
    [templateID |-> templateID, svgID |-> svgID] @@ GetSVGContent(templateID, svgID, failing)

(***************************************************************************)
(* Request values.  A JSON value of the data and htmlData maps is a string *)
(* or something else (a number, null); a map is a function on its keys.    *)
(***************************************************************************)
StrV(s) == [t |-> "string", s |-> s]

NilV == [t |-> "nil", s |-> <<>>]

NumV(digits) == [t |-> "number", s |-> digits]

\* fmt's %v of an interface{} value
FmtV(v) == IF v.t = "nil" THEN <<"<", "n", "i", "l", ">">> ELSE v.s

\* html/template's escaper for a text node
EscChar(c) ==
    CASE c = "<" -> <<"&", "l", "t", ";">>
      [] c = ">" -> <<"&", "g", "t", ";">>
      [] c = "&" -> <<"&", "a", "m", "p", ";">>
      [] c = "\"" -> <<"&", "#", "3", "4", ";">>
      [] c = "'" -> <<"&", "#", "3", "9", ";">>
      [] OTHER -> <<c>>

HTMLEscape(s) == Flatten([i \in 1..Len(s) |-> EscChar(s[i])])

(***************************************************************************)
(* Fields and formatting overrides.                                        *)
(***************************************************************************)
Attrs == {"fontWeight", "fontStyle", "textDecoration", "textColor", "fontFamily"}

\* a declaration the page markup does not contain
NotEmitted == "(not emitted)"

\* an override test that forgets the empty string
OverrideOfAnyString(bag, attr, base) ==
    IF attr \in DOMAIN bag /\ bag[attr].isString THEN bag[attr].s ELSE base

\* formatting[attr].(string), ok && value != ""
OverrideOf(bag, attr, base) ==
    IF attr \in DOMAIN bag /\ bag[attr].isString /\ bag[attr].s # ""
    THEN bag[attr].s ELSE base

\* the override loop body of generateHTML and generateMultiPageHTML
ApplyFormatting(field, formattingData) ==
    IF field.DataKey \in DOMAIN formattingData /\ formattingData[field.DataKey].isMap
    THEN LET bag == formattingData[field.DataKey].bag
         IN [field EXCEPT
                !.FontWeight = OverrideOf(bag, "fontWeight", @),
                !.FontStyle = OverrideOf(bag, "fontStyle", @),
                !.TextDecoration = OverrideOf(bag, "textDecoration", @),
                !.TextColor = OverrideOf(bag, "textColor", @),
                !.FontFamily = OverrideOf(bag, "fontFamily", @)]
    ELSE field

fieldsWithFormatting(fields, formattingData) ==
    [i \in 1..Len(fields) |-> ApplyFormatting(fields[i], formattingData)]

(***************************************************************************)
(* Ad-hoc custom fields of a generate-pdf request.                         *)
(***************************************************************************)
getString(m, key, defaultValue) ==
    IF key \in DOMAIN m /\ m[key].isString THEN m[key].s ELSE defaultValue

getInt(m, key, defaultValue) ==
    IF key \in DOMAIN m THEN m[key] ELSE defaultValue

\* the five getString calls on a formatting map
CustomFormatting(field, formatting) ==
    [field EXCEPT
        !.FontWeight = getString(formatting, "fontWeight", "normal"),
        !.FontStyle = getString(formatting, "fontStyle", "normal"),
        !.TextDecoration = getString(formatting, "textDecoration", "none"),
        !.TextColor = getString(formatting, "textColor", "#000000"),
        !.FontFamily = getString(formatting, "fontFamily", "Times New Roman")]

\* one customFields entry that is a JSON object
CustomField(fieldMap, formattingData) ==
    LET base == [ID |-> 0,
                 TemplateID |-> <<>>,
                 DataKey |-> getString(fieldMap.strs, "dataKey", ""),
                 FontSize |-> getInt(fieldMap.ints, "fontSize", 12),
                 PageIndex |-> getInt(fieldMap.ints, "pageIndex", 0),
                 PositionTop |-> getInt(fieldMap.ints, "position.top", 0),
                 PositionLeft |-> getInt(fieldMap.ints, "position.left", 0),
                 PositionWidth |-> getInt(fieldMap.ints, "position.width", 150),
                 PositionHeight |-> getInt(fieldMap.ints, "position.height", 25),
                 FontWeight |-> "", FontStyle |-> "", TextDecoration |-> "",
                 TextColor |-> "", FontFamily |-> ""]
        styled == IF fieldMap.formatting.has
                  THEN CustomFormatting(base, fieldMap.formatting.bag)
                  ELSE IF base.DataKey \in DOMAIN formattingData
                          /\ formattingData[base.DataKey].isMap
                  THEN CustomFormatting(base, formattingData[base.DataKey].bag)
                  ELSE base
    IN  IF fieldMap.position.has
        THEN [styled EXCEPT
                !.PositionTop = getInt(fieldMap.position.m, "top", 0),
                !.PositionLeft = getInt(fieldMap.position.m, "left", 0),
                !.PositionWidth = getInt(fieldMap.position.m, "width", 150),
                !.PositionHeight = getInt(fieldMap.position.m, "height", 25)]
        ELSE styled

\* extendedTemplate.Fields: the stored fields, then the custom fields in order
RECURSIVE ExtendedFields(_, _, _)
ExtendedFields(fields, customFields, formattingData) ==
    IF customFields = <<>> THEN fields
    ELSE ExtendedFields(
            IF Head(customFields).isMap
            THEN Append(fields, CustomField(Head(customFields), formattingData))
            ELSE fields,
            Tail(customFields), formattingData)

(***************************************************************************)
(* Background references (PDFHandler.convertToDataURI).                    *)
(***************************************************************************)
RECURSIVE SplitFrom(_, _, _)
SplitFrom(s, sep, cur) ==
    IF s = <<>> THEN <<cur>>
    ELSE IF Head(s) = sep THEN <<cur>> \o SplitFrom(Tail(s), sep, <<>>)
    ELSE SplitFrom(Tail(s), sep, Append(cur, Head(s)))

\* strings.Split on a one-character separator
Split(s, sep) == SplitFrom(s, sep, <<>>)

\* strings.TrimSuffix
TrimSuffix(s, x) ==
    IF Len(s) >= Len(x) /\ SubSeq(s, Len(s) - Len(x) + 1, Len(s)) = x
    THEN SubSeq(s, 1, Len(s) - Len(x)) ELSE s

ApiFilesSvg == <<"/", "a", "p", "i", "/", "f", "i", "l", "e", "s", "/", "s", "v", "g", "/">>

TemplatesSlash == <<"t", "e", "m", "p", "l", "a", "t", "e", "s", "/">>

DotSvg == <<".", "s", "v", "g">>

ConvertErr(kind) == [err |-> kind, uri |-> <<>>, calls |-> <<>>]

\* a data-URI test that gives way to the path shapes
IsDataURIUnlessPath(url) ==
    HasPrefix(url, DataScheme) /\ ~Contains(url, ApiFilesSvg)

\* "If it's already a data URI"
IsDataURI(url) == HasPrefix(url, DataScheme)

convertToDataURI(url, failing) ==
    LET Target(templateID, svgID) ==
            [err |-> "none", templateID |-> templateID, svgID |-> svgID]
        Invalid(kind) == [err |-> kind, templateID |-> <<>>, svgID |-> <<>>]
        IsApi(parts) ==
            /\ Len(parts) >= 4
            /\ parts[1] = <<"a", "p", "i">>
            /\ parts[2] = <<"f", "i", "l", "e", "s">>
            /\ parts[3] = <<"s", "v", "g">>
        \* templateID and svgID as the URL formats give them
        Parse(parts) ==
            IF Contains(url, ApiFilesSvg)
            THEN IF IsApi(parts) /\ Len(parts) >= 6 /\ parts[5] = <<"p", "a", "g", "e">>
                 THEN Target(parts[4], PagePrefix \o parts[6])
                 ELSE IF IsApi(parts) THEN Target(parts[4], <<>>)
                 ELSE Invalid("invalid SVG URL format")
            ELSE IF Contains(url, TemplatesSlash)
            THEN IF Len(parts) >= 3 /\ parts[1] = <<"t", "e", "m", "p", "l", "a", "t", "e", "s">>
                 THEN Target(parts[2], TrimSuffix(parts[3], DotSvg))
                 ELSE Invalid("invalid SVG URL format")
            ELSE Invalid("unsupported SVG URL format")
        Encoded(c) ==
            IF c.err
            THEN [err |-> "failed to get SVG content", uri |-> <<>>, calls |-> <<c>>]
            ELSE [err |-> "none", uri |-> DataURI(c.content), calls |-> <<c>>]
        Resolve(target) ==
            IF target.err # "none" THEN ConvertErr(target.err)
            ELSE Encoded(Call(target.templateID, target.svgID, failing))
    IN  IF url = <<>> THEN [err |-> "none", uri |-> <<>>, calls |-> <<>>]
        ELSE IF IsDataURI(url) THEN [err |-> "none", uri |-> url, calls |-> <<>>]
        ELSE Resolve(Parse(Split(TrimPrefix(url, <<"/">>), "/")))

(***************************************************************************)
(* HTML composition.  A document is a sequence of pages, a page a          *)
(* background and a sequence of field blocks; a block holds the            *)
(* declarations of its style attribute and its text as written into the    *)
(* markup.                                                                 *)
(***************************************************************************)
\* a block with top and left taken from each other's field
PageBlockSwapped(field, data) ==
    [top |-> field.PositionLeft, left |-> field.PositionTop,
     width |-> field.PositionWidth, height |-> field.PositionHeight,
     fontSize |-> 12,
     fontWeight |-> NotEmitted, fontStyle |-> NotEmitted,
     textDecoration |-> NotEmitted, color |-> NotEmitted, fontFamily |-> NotEmitted,
     text |-> IF field.DataKey \in DOMAIN data THEN FmtV(data[field.DataKey]) ELSE <<>>]

\* the block generatePageHTML writes for one field
PageBlock(field, data) ==
    [top |-> field.PositionTop, left |-> field.PositionLeft,
     width |-> field.PositionWidth, height |-> field.PositionHeight,
     fontSize |-> 12,
     fontWeight |-> NotEmitted, fontStyle |-> NotEmitted,
     textDecoration |-> NotEmitted, color |-> NotEmitted, fontFamily |-> NotEmitted,
     text |-> IF field.DataKey \in DOMAIN data THEN FmtV(data[field.DataKey]) ELSE <<>>]

\* a page composed by data key: a later field with an earlier field's key is lost
generatePageHTMLByKey(svgDataURI, fields, data) ==
    LET first == {i \in 1..Len(fields) :
                    \A j \in 1..(i - 1) : fields[j].DataKey # fields[i].DataKey}
        kept == SelectSeq([i \in 1..Len(fields) |-> [i |-> i, f |-> fields[i]]],
                          LAMBDA x : x.i \in first)
    IN [background |-> svgDataURI,
        blocks |-> [i \in 1..Len(kept) |-> PageBlock(kept[i].f, data)]]

generatePageHTML(svgDataURI, fields, data) ==
    [background |-> svgDataURI,
     blocks |-> [i \in 1..Len(fields) |-> PageBlock(fields[i], data)]]

\* mergedData: the plain values, overwritten by every htmlData value v != ""
MergedData(data, htmlData) ==
    [k \in DOMAIN data \cup {h \in DOMAIN htmlData : htmlData[h] # StrV(<<>>)} |->
        IF k \in DOMAIN htmlData /\ htmlData[k] # StrV(<<>>) THEN htmlData[k] ELSE data[k]]

\* processedHtmlData: the htmlData entries that are strings
ProcessedHtmlData(htmlData) ==
    [k \in {h \in DOMAIN htmlData : htmlData[h].t = "string"} |-> htmlData[k].s]

\* {{if index $.HtmlData .DataKey}}...{{else}}{{index $.Data .DataKey}}{{end}}
LegacyText(key, data, processed) ==
    IF key \in DOMAIN processed /\ processed[key] # <<>>
    THEN processed[key]
    ELSE IF key \in DOMAIN data /\ data[key].t # "nil"
    THEN HTMLEscape(data[key].s)
    ELSE <<>>

\* the block the legacy document template writes for one field
LegacyBlock(field, data, processed) ==
    [top |-> field.PositionTop, left |-> field.PositionLeft,
     width |-> field.PositionWidth, height |-> field.PositionHeight,
     fontSize |-> IF field.FontSize # 0 THEN field.FontSize ELSE 12,
     fontWeight |-> IF field.FontWeight # "" THEN field.FontWeight ELSE "normal",
     fontStyle |-> IF field.FontStyle # "" THEN field.FontStyle ELSE "normal",
     textDecoration |-> IF field.TextDecoration # "" THEN field.TextDecoration ELSE "none",
     color |-> IF field.TextColor # "" THEN field.TextColor ELSE "#000000",
     fontFamily |-> IF field.FontFamily # "" THEN field.FontFamily ELSE "Times New Roman",
     text |-> LegacyText(field.DataKey, data, processed)]

\* a mode test that also looks at the fields
IsMultiPageOrHasFields(tmplData) ==
    Len(tmplData.SVGFiles) > 0 \/ Len(tmplData.Fields) > 0

\* the mode test of generateHTML
IsMultiPage(tmplData) == Len(tmplData.SVGFiles) > 0

\* a skip test that drops every page without fields
SkipPageWithoutFields(hasSVG, fields) == Len(fields) = 0

\* a skip test that drops nothing
SkipNoPage(hasSVG, fields) == FALSE

\* "Skip pages with no SVG and no fields"
SkipPage(hasSVG, fields) == ~hasSVG /\ Len(fields) = 0

\* the pages of generateMultiPageHTML's loop from pageIndex up to maxPage
RECURSIVE htmlPages(_, _, _, _, _, _, _)
htmlPages(tmplData, data, formattingData, htmlData, failing, pageIndex, maxPage) ==
    LET hasSVG == \E i \in 1..Len(tmplData.SVGFiles) :
                      tmplData.SVGFiles[i].PageIndex = pageIndex
        Page(c, styled, pageHTML) ==
            [pageIndex |-> pageIndex,
             fields |-> styled,
             warned |-> hasSVG /\ c.err,
             calls |-> IF hasSVG THEN <<c>> ELSE <<>>,
             background |-> pageHTML.background,
             blocks |-> pageHTML.blocks]
        Compose(c, styled) ==
            Page(c, styled,
                 generatePageHTML(IF hasSVG /\ ~c.err THEN DataURI(c.content) ELSE <<>>,
                                  styled, MergedData(data, htmlData)))
        Emit(fields, rest) ==
            IF SkipPage(hasSVG, fields) THEN rest
            ELSE <<Compose(Call(tmplData.ID, PagePrefix \o Itoa(pageIndex), failing),
                           fieldsWithFormatting(fields, formattingData))>> \o rest
    IN  IF pageIndex > maxPage THEN <<>>
        ELSE Emit(SelectSeq(tmplData.Fields, LAMBDA f : f.PageIndex = pageIndex),
                  htmlPages(tmplData, data, formattingData, htmlData, failing,
                            pageIndex + 1, maxPage))

generateMultiPageHTML(tmplData, data, formattingData, htmlData, failing) ==
    LET maxPage == Max({0} \cup {tmplData.Fields[i].PageIndex : i \in 1..Len(tmplData.Fields)}
                       \cup {tmplData.SVGFiles[i].PageIndex : i \in 1..Len(tmplData.SVGFiles)})
        Result(pages) ==
            IF Len(pages) = 0
            THEN [err |-> "no pages with SVG files or fields found", cause |-> "none",
                  path |-> "multi", pages |-> <<>>, calls |-> <<>>]
            ELSE [err |-> "none", cause |-> "none", path |-> "multi", pages |-> pages,
                  calls |-> Flatten([i \in 1..Len(pages) |-> pages[i].calls])]
    IN  Result(htmlPages(tmplData, data, formattingData, htmlData, failing, 0, maxPage))

\* the legacy single-page document of generateHTML
generateLegacyHTML(tmplData, data, formattingData, htmlData, failing) ==
    LET Result(svg, styled, processed) ==
            IF svg.err # "none"
            THEN [err |-> "failed to convert SVG to data URI", cause |-> svg.err,
                  path |-> "legacy", pages |-> <<>>, calls |-> svg.calls]
            ELSE [err |-> "none", cause |-> "none", path |-> "legacy",
                  calls |-> svg.calls,
                  pages |-> <<[pageIndex |-> 0,
                               fields |-> styled,
                               warned |-> FALSE,
                               calls |-> svg.calls,
                               background |-> svg.uri,
                               blocks |-> [i \in 1..Len(styled) |->
                                              LegacyBlock(styled[i], data, processed)]]>>]
    IN  Result(convertToDataURI(tmplData.SVGBackground, failing),
               fieldsWithFormatting(tmplData.Fields, formattingData),
               ProcessedHtmlData(htmlData))

generateHTML(tmplData, data, formattingData, htmlData, failing) ==
    IF IsMultiPage(tmplData)
    THEN generateMultiPageHTML(tmplData, data, formattingData, htmlData, failing)
    ELSE generateLegacyHTML(tmplData, data, formattingData, htmlData, failing)

(***************************************************************************)
(* The generate-pdf handler.                                               *)
(***************************************************************************)
\* TemplateService.GetByID with Fields and SVGFiles preloaded
GetByID(id) ==
    IF id \in DOMAIN templates
    THEN [found |-> TRUE, ID |-> id, SVGBackground |-> templates[id].SVGBackground,
          Fields |-> SelectSeq(fieldRows, LAMBDA f : f.TemplateID = id),
          SVGFiles |-> RowsOf(id)]
    ELSE [found |-> FALSE, ID |-> id, SVGBackground |-> <<>>,
          Fields |-> <<>>, SVGFiles |-> <<>>]

NoHTML == [err |-> "none", cause |-> "none", path |-> "none", pages |-> <<>>]

\* generateHTML's result without the log of its lookups
Document(h) == [err |-> h.err, cause |-> h.cause, path |-> h.path, pages |-> h.pages]

NoResponse == [status |-> 0, error |-> "none"]

\* no concurrent request is under way
NoJobs == <<>>

\* an empty form_submissions table
NoSubmissions == <<>>

\* the auto-increment counters when no insert of the model uses them
NoKeys == [svg_files |-> 0, template_fields |-> 0]

\* no upload, deletion or update is under way
NoWrites == <<>>

\* failing: the objects the asset store fails to serve during this request;
\* engineOK: whether the headless engine loads and prints the document in time
GeneratePDF(r, failing, engineOK) ==
    LET Answer(template, htmlContent) ==
            /\ html' = IF template.found THEN Document(htmlContent) ELSE NoHTML
            /\ calls' = IF template.found THEN htmlContent.calls ELSE <<>>
            /\ resp' = IF ~template.found
                       THEN [status |-> 404, error |-> "Template not found"]
                       ELSE IF htmlContent.err # "none"
                       THEN [status |-> 500, error |-> "Failed to generate HTML"]
                       ELSE IF ~engineOK
                       THEN [status |-> 500, error |-> "Failed to generate PDF"]
                       ELSE [status |-> 200, error |-> "none"]
        \* extendedTemplate: the template with the custom fields appended
        Render(template) ==
            Answer(template,
                   generateHTML([template EXCEPT
                                    !.Fields = ExtendedFields(@, r.CustomFields,
                                                              r.FormattingData)],
                                r.Data, r.FormattingData, r.HtmlData, failing))
    IN  /\ req = r
        /\ resp = NoResponse
        /\ Render(GetByID(r.TemplateID))
        /\ UNCHANGED <<submissions, clock, autoInc, writes>>
        /\ UNCHANGED <<templates, fieldRows, svgRows, gcs, req, jobs, engines>>

(***************************************************************************)
(* Stored templates and requests the specifications draw from.             *)
(***************************************************************************)
Keys == {"k1", "k2"}

PlainStyle == [FontSize |-> 12, FontWeight |-> "", FontStyle |-> "",
               TextDecoration |-> "", TextColor |-> "", FontFamily |-> ""]

Pos1 == [top |-> 10, left |-> 10, width |-> 100, height |-> 20]

Pos2 == [top |-> 40, left |-> 15, width |-> 150, height |-> 25]

Field(key, page, pos, style) ==
    [ID |-> 0, TemplateID |-> T1, DataKey |-> key,
     FontSize |-> style.FontSize, PageIndex |-> page,
     PositionTop |-> pos.top, PositionLeft |-> pos.left,
     PositionWidth |-> pos.width, PositionHeight |-> pos.height,
     FontWeight |-> style.FontWeight, FontStyle |-> style.FontStyle,
     TextDecoration |-> style.TextDecoration, TextColor |-> style.TextColor,
     FontFamily |-> style.FontFamily]

\* rows as the table holds them: the primary key counts up in insertion order
WithIDs(rows) == [i \in 1..Len(rows) |-> [rows[i] EXCEPT !.ID = i]]

\* storage.GenerateObjectName: "templates/%s/%d%s"
GenerateObjectName(templateID, timestamp, ext) ==
    TemplatesSlash \o templateID \o <<"/">> \o Itoa(timestamp) \o ext

BgSvg == <<"b", "g", ".", "s", "v", "g">>

\* the bytes uploaded as the n-th asset
Image(n) == <<"i", "m", "g">> \o Itoa(n)

SVGFile(n, page) ==
    [ID |-> n, TemplateID |-> T1, PageIndex |-> page, Filename |-> BgSvg,
     OriginalName |-> BgSvg,
     GCSPath |-> GenerateObjectName(T1, n, DotSvg), CreatedAt |-> n]

RECURSIVE Ascending(_)
Ascending(S) ==
    IF S = {} THEN <<>>
    ELSE LET m == CHOOSE x \in S : \A y \in S : x <= y
         IN <<m>> \o Ascending(S \ {m})

\* one background per page of S, uploaded in page order
SVGFilesFor(S) ==
    LET order == Ascending(S) IN [i \in 1..Len(order) |-> SVGFile(i, order[i])]

StoreFor(rows) ==
    [o \in {rows[i].GCSPath : i \in 1..Len(rows)} |->
        Image((CHOOSE i \in 1..Len(rows) : rows[i].GCSPath = o))]

PageIndices == (0 - 1)..MaxPage

\* "/api/files/svg/T1", the path form of a reference to T1's background
LegacyRef == ApiFilesSvg \o T1

\* the store fails for no object, for one object, or for all of them
FailSets == {{}} \cup {{o} : o \in DOMAIN gcs} \cup {DOMAIN gcs}

Request(id, data, htmlData, formattingData, customFields) ==
    [TemplateID |-> id, Data |-> data, HtmlData |-> htmlData,
     FormattingData |-> formattingData, CustomFields |-> customFields]

EmptyMap == <<>>

(***************************************************************************)
(* Spec: page grouping.  Templates differ in the pages of their fields and *)
(* backgrounds; requests in the template they name and in what the asset   *)
(* store and the engine do.                                                *)
(***************************************************************************)
PageFields == {Field("k1", p, Pos1, PlainStyle) : p \in PageIndices}

PageData == [k \in {"k1"} |-> StrV(<<"B", "o", "b">>)]

PageRequests == {Request(id, PageData, EmptyMap, EmptyMap, <<>>) : id \in {T1, T9}}

Init ==
    /\ fieldRows \in {WithIDs(fs) : fs \in SeqsUpTo(PageFields, MaxFields)}
    /\ svgRows \in {SVGFilesFor(S) : S \in SUBSET PageIndices}
    /\ gcs = StoreFor(svgRows)
    /\ templates \in {[t \in {T1} |-> [SVGBackground |-> ref]] :
                        ref \in IF svgRows = <<>> THEN {<<>>, LegacyRef} ELSE {LegacyRef}}
    /\ req \in PageRequests
    /\ html = NoHTML
    /\ resp = NoResponse
    /\ calls = <<>>
    /\ jobs = NoJobs
    /\ engines = <<>>
    /\ submissions = NoSubmissions
    /\ clock = 0
    /\ autoInc = NoKeys
    /\ writes = NoWrites

Next ==
    \E failing \in FailSets, engineOK \in BOOLEAN :
        GeneratePDF(req, failing, engineOK)

Spec == Init /\ [][Next]_vars

(***************************************************************************)
(* What the claims speak about.                                            *)
(***************************************************************************)
Responded == resp # NoResponse

Rendered == Responded /\ html.path # "none"

\* the template handed to generateHTML: the stored one plus the custom fields
TmplData ==
    [GetByID(req.TemplateID) EXCEPT
        !.Fields = ExtendedFields(@, req.CustomFields, req.FormattingData)]

FieldPages == {TmplData.Fields[i].PageIndex : i \in 1..Len(TmplData.Fields)}

BackgroundPages == {TmplData.SVGFiles[i].PageIndex : i \in 1..Len(TmplData.SVGFiles)}

EmittedPages == [i \in 1..Len(html.pages) |-> html.pages[i].pageIndex]

\* the page indices from 0 to the highest one in use that have a background or a field
ExpectedPages ==
    IF FieldPages \cup BackgroundPages = {} THEN {}
    ELSE {p \in 0..Max(FieldPages \cup BackgroundPages) :
            p \in FieldPages \/ p \in BackgroundPages}

NoPagesError == "no pages with SVG files or fields found"

\* C1: a multi-page render emits exactly the page indices from 0 to the highest
\* index in use that have a background or at least one field, each once and in
\* ascending order; an index with neither is left out.
C1_EmittedPagesAreTheUsedIndices ==
    html.path = "multi" =>
        /\ Range(EmittedPages) = ExpectedPages
        /\ \A i, j \in 1..Len(EmittedPages) : i < j => EmittedPages[i] < EmittedPages[j]

\* C1 witness: fields only on page 2 and a background only on page 0: pages 0
\* and 2 are emitted and the empty page 1 is not.
C1_Witness ==
    /\ html.path = "multi"
    /\ FieldPages = {2}
    /\ BackgroundPages = {0}
    /\ EmittedPages = <<0, 2>>

\* C2: a render takes the multi-page path exactly when the template has at least
\* one PageBackground, and the legacy path exactly when it has none.
C2_ModeFollowsPageBackgrounds ==
    Rendered =>
        /\ html.path \in {"multi", "legacy"}
        /\ html.path = "multi" <=> Len(TmplData.SVGFiles) >= 1
        /\ html.path = "legacy" <=> Len(TmplData.SVGFiles) = 0

\* C2 witness: a template with fields on several pages and no PageBackground is
\* rendered on the legacy path, as one page.
C2_Witness ==
    /\ html.path = "legacy"
    /\ html.err = "none"
    /\ Cardinality(FieldPages) = 2
    /\ Len(html.pages) = 1

\* C3: generateMultiPageHTML fails, returning no HTML, exactly when no page index
\* from 0 to the highest one in use has a background or a field; when a page is
\* emitted it returns the document and no error.
C3_FailsExactlyWithoutPages ==
    html.path = "multi" =>
        /\ html.err = NoPagesError <=> ExpectedPages = {}
        /\ html.err \in {"none", NoPagesError}
        /\ html.err # "none" => html.pages = <<>> /\ resp.status = 500
        /\ html.pages # <<>> => html.err = "none"

\* C3 witness: the only background sits on page -1, so no page is emitted and the
\* render fails.
C3_Witness ==
    /\ html.path = "multi"
    /\ html.err = NoPagesError
    /\ BackgroundPages = {0 - 1}
    /\ resp.status = 500

\* what the render gives when the asset store serves every object
Undisturbed ==
    generateHTML(TmplData, req.Data, req.FormattingData, req.HtmlData, {})

\* C10: a failed background resolution (asset not found, fetch failed) never
\* fails HTML generation: the page is emitted with its fields and no background
\* image, and every other page is as it is without the failure.
C10_BackgroundFailureIsTolerated ==
    /\ html.cause = "failed to get SVG content" => html.err = "none"
    /\ html.path = "multi" /\ html.err = "none" =>
          /\ Len(html.pages) = Len(Undisturbed.pages)
          /\ \A i \in 1..Len(html.pages) :
                /\ html.pages[i].blocks = Undisturbed.pages[i].blocks
                /\ html.pages[i].warned => html.pages[i].background = <<>>
                /\ ~html.pages[i].warned => html.pages[i] = Undisturbed.pages[i]

(***************************************************************************)
(* SpecValues: value merge and text.  Templates are legacy or have one     *)
(* background; requests differ in the plain and the HTML-flavored values.  *)
(***************************************************************************)
ValueFields ==
    {Field(f[1], p, f[2], PlainStyle) :
        f \in {<<"k1", Pos1>>, <<"k1", Pos2>>, <<"k2", Pos1>>}, p \in {0, 1}}

Alice == <<"A", "l">>

Markup == <<"<", "b", ">">>

HtmlMarkup == <<"<", "i", ">">>

PlainValues == {StrV(Alice), StrV(Markup), NilV}

HtmlValues == {StrV(<<>>), StrV(HtmlMarkup), NilV, NumV(<<"5">>)}

PlainMaps ==
    {[k \in D |-> IF k = "k1" THEN v ELSE StrV(<<"x">>)] :
        D \in SUBSET Keys, v \in PlainValues}

HtmlMaps == {[k \in D |-> v] : D \in SUBSET {"k1"}, v \in HtmlValues}

InitValues ==
    /\ fieldRows \in {WithIDs(fs) : fs \in SeqsUpTo(ValueFields, MaxValueFields)}
    /\ svgRows \in {SVGFilesFor({}), SVGFilesFor({0})}
    /\ gcs = StoreFor(svgRows)
    /\ templates = [t \in {T1} |->
                      [SVGBackground |-> IF svgRows = <<>> THEN <<>> ELSE LegacyRef]]
    /\ req \in {Request(T1, d, h, EmptyMap, <<>>) : d \in PlainMaps, h \in HtmlMaps}
    /\ html = NoHTML
    /\ resp = NoResponse
    /\ calls = <<>>
    /\ jobs = NoJobs
    /\ engines = <<>>
    /\ submissions = NoSubmissions
    /\ clock = 0
    /\ autoInc = NoKeys
    /\ writes = NoWrites

SpecValues == InitValues /\ [][Next]_vars

\* the fields a page shows: those of its page index, or all on the legacy path
FieldsOn(pg) ==
    IF html.path = "legacy" THEN TmplData.Fields
    ELSE SelectSeq(TmplData.Fields, LAMBDA f : f.PageIndex = pg.pageIndex)

Placement(x) ==
    [top |-> x.top, left |-> x.left, width |-> x.width, height |-> x.height]

StoredPlacement(f) ==
    [top |-> f.PositionTop, left |-> f.PositionLeft,
     width |-> f.PositionWidth, height |-> f.PositionHeight]

\* null and the empty string are empty values
NonEmptyValue(m, k) == k \in DOMAIN m /\ m[k].t # "nil" /\ m[k].s # <<>>

\* the texts a value can be shown as: as it is, escaped, or nothing for null
TextsOf(v) == {FmtV(v), HTMLEscape(FmtV(v))} \cup (IF v.t = "nil" THEN {<<>>} ELSE {})

\* C6: in both render paths a field shows the HTML-flavored value when that map
\* holds a non-empty value under its data key, and the plain value otherwise.
C6_HtmlValueWinsOnlyWhenNonEmpty ==
    \A n \in 1..Len(html.pages) :
        \A i \in 1..Len(html.pages[n].blocks) :
            LET k == FieldsOn(html.pages[n])[i].DataKey
                text == html.pages[n].blocks[i].text
            IN  IF NonEmptyValue(req.HtmlData, k) THEN text \in TextsOf(req.HtmlData[k])
                ELSE IF k \in DOMAIN req.Data THEN text \in TextsOf(req.Data[k])
                ELSE text = <<>>

\* C7: a value taken from the plain value map is written HTML-escaped in every
\* render path; only a value of the HTML-flavored map is written as markup.
C7_PlainValuesAreEscaped ==
    \A n \in 1..Len(html.pages) :
        \A i \in 1..Len(html.pages[n].blocks) :
            LET k == FieldsOn(html.pages[n])[i].DataKey
            IN  k \notin DOMAIN req.HtmlData /\ k \in DOMAIN req.Data
                    /\ req.Data[k].t = "string"
                => html.pages[n].blocks[i].text = HTMLEscape(req.Data[k].s)

\* C9: every emitted page has one block per field of that page, in the stored
\* order; fields with the same data key show the same text, and a field with no
\* value under its data key shows none.
C9_OneBlockPerFieldInStoredOrder ==
    \A n \in 1..Len(html.pages) :
        LET pg == html.pages[n]
            fs == FieldsOn(pg)
        IN  /\ Len(pg.blocks) = Len(fs)
            /\ \A i \in 1..Len(pg.blocks) :
                  /\ Placement(pg.blocks[i]) = StoredPlacement(fs[i])
                  /\ fs[i].DataKey \notin DOMAIN req.Data \cup DOMAIN req.HtmlData
                        => pg.blocks[i].text = <<>>
                  /\ fs[i].DataKey \in DOMAIN req.Data
                        /\ fs[i].DataKey \notin DOMAIN req.HtmlData
                        => pg.blocks[i].text \in TextsOf(req.Data[fs[i].DataKey])
            /\ \A i, j \in 1..Len(pg.blocks) :
                  fs[i].DataKey = fs[j].DataKey => pg.blocks[i].text = pg.blocks[j].text

\* C9 witness: a multi-page render of two fields of page 0 with the same data
\* key, stored at Pos2 and then at Pos1: two blocks, in that order, same text.
C9_Witness ==
    /\ html.path = "multi"
    /\ Len(html.pages) = 1
    /\ Len(html.pages[1].blocks) = 2
    /\ Placement(html.pages[1].blocks[1]) = Pos2
    /\ Placement(html.pages[1].blocks[2]) = Pos1
    /\ html.pages[1].blocks[1].text = Alice
    /\ html.pages[1].blocks[2].text = Alice

(***************************************************************************)
(* SpecFormat: formatting overrides, styling and placement.  Templates are *)
(* legacy or have one background; fields differ in their stored style and  *)
(* position; requests in the formatting overrides and the custom fields.   *)
(***************************************************************************)
BoldStyle == [FontSize |-> 14, FontWeight |-> "bold", FontStyle |-> "italic",
              TextDecoration |-> "underline", TextColor |-> "#ff0000",
              FontFamily |-> "Arial"]

\* a field written without the column defaults
ZeroStyle == [PlainStyle EXCEPT !.FontSize = 0]

StyledFields ==
    {Field("k1", 0, Pos1, st) : st \in {PlainStyle, BoldStyle, ZeroStyle}}
        \cup {Field("k2", 0, Pos2, PlainStyle)}

StrF(s) == [isString |-> TRUE, s |-> s]

\* a JSON value that is no string
NonStrF == [isString |-> FALSE, s |-> ""]

OverrideValue ==
    [a \in Attrs |->
        CASE a = "fontWeight" -> "bolder"
          [] a = "fontStyle" -> "oblique"
          [] a = "textDecoration" -> "line-through"
          [] a = "textColor" -> "#00ff00"
          [] a = "fontFamily" -> "Courier"]

AllSetBag == [a \in Attrs |-> StrF(OverrideValue[a])]

\* no attribute, one attribute (a string, the empty string, no string), or all
Bags ==
    {EmptyMap, AllSetBag}
        \cup UNION {{[a \in {b} |-> v] : v \in {StrF(OverrideValue[b]), StrF(""), NonStrF}} :
                        b \in Attrs}

MapEntry(bag) == [isMap |-> TRUE, bag |-> bag]

\* an override entry that is no JSON object
MalformedEntry == [isMap |-> FALSE, bag |-> EmptyMap]

FormattingMaps ==
    {EmptyMap, [k \in {"k2"} |-> MapEntry(AllSetBag)], [k \in Keys |-> MapEntry(AllSetBag)]}
        \cup {[k \in {"k1"} |-> e] : e \in {MalformedEntry} \cup {MapEntry(b) : b \in Bags}}

\* a customFields entry that is no JSON object
NonMapItem == [isMap |-> FALSE, strs |-> EmptyMap, ints |-> EmptyMap,
               formatting |-> [has |-> FALSE, bag |-> EmptyMap],
               position |-> [has |-> FALSE, m |-> EmptyMap]]

\* {"dataKey":"k1","pageIndex":1,"formatting":{"fontWeight":"bold"},"position":{"top":5,"left":6}}
CustomWithFormatting ==
    [isMap |-> TRUE,
     strs |-> [k \in {"dataKey"} |-> StrF("k1")],
     ints |-> [k \in {"pageIndex"} |-> 1],
     formatting |-> [has |-> TRUE, bag |-> [a \in {"fontWeight"} |-> StrF("bold")]],
     position |-> [has |-> TRUE, m |-> [k \in {"top", "left"} |-> IF k = "top" THEN 5 ELSE 6]]]

\* {"dataKey":"k2","fontSize":9}
CustomBare ==
    [isMap |-> TRUE,
     strs |-> [k \in {"dataKey"} |-> StrF("k2")],
     ints |-> [k \in {"fontSize"} |-> 9],
     formatting |-> [has |-> FALSE, bag |-> EmptyMap],
     position |-> [has |-> FALSE, m |-> EmptyMap]]

CustomFieldLists == {<<>>, <<NonMapItem>>, <<CustomWithFormatting>>, <<NonMapItem, CustomBare>>}

InitFormat ==
    /\ fieldRows \in {WithIDs(fs) : fs \in SeqsUpTo(StyledFields, MaxStyledFields)}
    /\ svgRows \in {SVGFilesFor({}), SVGFilesFor({0})}
    /\ gcs = StoreFor(svgRows)
    /\ templates = [t \in {T1} |->
                      [SVGBackground |-> IF svgRows = <<>> THEN <<>> ELSE LegacyRef]]
    /\ req \in {Request(T1, PageData, EmptyMap, fd, cf) :
                    fd \in FormattingMaps, cf \in CustomFieldLists}
    /\ html = NoHTML
    /\ resp = NoResponse
    /\ calls = <<>>
    /\ jobs = NoJobs
    /\ engines = <<>>
    /\ submissions = NoSubmissions
    /\ clock = 0
    /\ autoInc = NoKeys
    /\ writes = NoWrites

SpecFormat == InitFormat /\ [][Next]_vars

\* the override the request holds for a data key and an attribute, if any
HasOverride(k, a) ==
    /\ k \in DOMAIN req.FormattingData
    /\ req.FormattingData[k].isMap
    /\ a \in DOMAIN req.FormattingData[k].bag
    /\ req.FormattingData[k].bag[a].isString
    /\ req.FormattingData[k].bag[a].s # ""

Effective(k, a, stored) ==
    IF HasOverride(k, a) THEN req.FormattingData[k].bag[a].s ELSE stored

\* C4: for every field and formatting attribute the effective value is the
\* override when the request holds a bag under the field's data key with that
\* attribute a non-empty string, and the field's own value otherwise; nothing
\* else of the field changes.
C4_EffectiveFormatting ==
    \A n \in 1..Len(html.pages) :
        LET pg == html.pages[n]
            fs == FieldsOn(pg)
        IN  /\ Len(pg.fields) = Len(fs)
            /\ \A i \in 1..Len(pg.fields) :
                  LET k == fs[i].DataKey
                  IN pg.fields[i] =
                        [fs[i] EXCEPT
                            !.FontWeight = Effective(k, "fontWeight", @),
                            !.FontStyle = Effective(k, "fontStyle", @),
                            !.TextDecoration = Effective(k, "textDecoration", @),
                            !.TextColor = Effective(k, "textColor", @),
                            !.FontFamily = Effective(k, "fontFamily", @)]

\* C4 witness: a stored bold italic field whose bag holds only an empty
\* fontStyle has been rendered: its style stays italic.
C4_Witness ==
    /\ Rendered
    /\ Len(html.pages) >= 1
    /\ Len(html.pages[1].fields) >= 1
    /\ FieldsOn(html.pages[1])[1].FontWeight = "bold"
    /\ "k1" \in DOMAIN req.FormattingData
    /\ req.FormattingData["k1"] = MapEntry([a \in {"fontStyle"} |-> StrF("")])
    /\ html.pages[1].fields[1].FontStyle = "italic"

\* what a block shows for a declaration: its value, or the inherited default
Shown(value, default) == IF value = NotEmitted THEN default ELSE value

OrDefault(value, default) == IF value = "" THEN default ELSE value

\* C5: in a multi-page render every block shows the font size, weight, style,
\* decoration, colour and family of its effective field, the default where the
\* field has none, as the legacy render does.
C5_MultiPageBlocksAreStyled ==
    html.path = "multi" =>
        \A n \in 1..Len(html.pages) :
            \A i \in 1..Len(html.pages[n].blocks) :
                LET b == html.pages[n].blocks[i]
                    f == FieldsOn(html.pages[n])[i]
                    k == f.DataKey
                IN  /\ b.fontSize = IF f.FontSize # 0 THEN f.FontSize ELSE 12
                    /\ Shown(b.fontWeight, "normal")
                          = OrDefault(Effective(k, "fontWeight", f.FontWeight), "normal")
                    /\ Shown(b.fontStyle, "normal")
                          = OrDefault(Effective(k, "fontStyle", f.FontStyle), "normal")
                    /\ Shown(b.textDecoration, "none")
                          = OrDefault(Effective(k, "textDecoration", f.TextDecoration), "none")
                    /\ Shown(b.color, "#000000")
                          = OrDefault(Effective(k, "textColor", f.TextColor), "#000000")
                    /\ Shown(b.fontFamily, "Times New Roman")
                          = OrDefault(Effective(k, "fontFamily", f.FontFamily), "Times New Roman")

\* the same template without PageBackgrounds, rendered on the legacy path
AsLegacy ==
    generateLegacyHTML([TmplData EXCEPT !.SVGFiles = <<>>, !.SVGBackground = <<>>],
                       req.Data, req.FormattingData, req.HtmlData, {})

Placements(blocks) == [i \in 1..Len(blocks) |-> Placement(blocks[i])]

\* C8: on both paths every block sits at its field's stored top, left, width
\* and height; so a template with one PageBackground on page 0 and all fields on
\* page 0 places every field as the legacy render of the same fields does.
C8_StoredPlacement ==
    /\ \A n \in 1..Len(html.pages) :
          Placements(html.pages[n].blocks)
              = [i \in 1..Len(FieldsOn(html.pages[n])) |->
                    StoredPlacement(FieldsOn(html.pages[n])[i])]
    /\ html.path = "multi" /\ BackgroundPages = {0} /\ FieldPages \subseteq {0} =>
          /\ Len(html.pages) = 1
          /\ Placements(html.pages[1].blocks) = Placements(AsLegacy.pages[1].blocks)

\* C8 witness: one PageBackground on page 0 and two fields on page 0, stored at
\* Pos2 and Pos1: the multi-page render places them there, in that order.
C8_Witness ==
    /\ html.path = "multi"
    /\ BackgroundPages = {0}
    /\ FieldPages = {0}
    /\ Len(html.pages) = 1
    /\ Placements(html.pages[1].blocks) = <<Pos2, Pos1>>

(***************************************************************************)
(* SpecResolve: background references.  Template T1 has no asset of its    *)
(* own and refers, in SVGBackground, to the assets of template T2; the     *)
(* render of T1 resolves the reference, the render of T2 fetches its       *)
(* PageBackgrounds by page.                                                *)
(***************************************************************************)
MaxAssets == 2  \* assets of template T2

T2 == <<"T", "2">>

AssetPages == 0..2

AbSvg == <<"a", "b", ".", "s", "v", "g">>

AUnderBSvg == <<"a", "_", "b", ".", "s", "v", "g">>

AxbSvg == <<"a", "x", "b", ".", "s", "v", "g">>

\* the names files are uploaded under
AssetNames == {AbSvg, AUnderBSvg, AxbSvg}

\* the n-th upload: UploadSVGWithPage's row for a file of that name and page
Asset(n, page, name) ==
    [ID |-> n, TemplateID |-> T2, PageIndex |-> page, Filename |-> name,
     OriginalName |-> name,
     GCSPath |-> GenerateObjectName(T2, n, DotSvg), CreatedAt |-> n]

\* uploads in any page order, one asset per page
AssetStores ==
    {[i \in 1..Len(u) |-> Asset(i, u[i][1], u[i][2])] :
        u \in {v \in SeqsUpTo(AssetPages \X AssetNames, MaxAssets) :
                  \A i, j \in 1..Len(v) : i # j => v[i][1] # v[j][1]}}

SlashPageSlash == <<"/", "p", "a", "g", "e", "/">>

PerPageRef(templateID, n) == ApiFilesSvg \o templateID \o SlashPageSlash \o Itoa(n)

TemplateOnlyRef(templateID) == ApiFilesSvg \o templateID

LegacyPathRef(templateID, filename) == TemplatesSlash \o templateID \o <<"/">> \o filename

EmbeddedRefs ==
    {DataScheme \o <<"i", "m", "a", "g", "e", "/", "s", "v", "g", "+", "x", "m", "l", ";", "b", "a", "s", "e", "6", "4", ",", "e", "A", "=", "=">>,
     DataScheme \o TemplateOnlyRef(T2),
     DataScheme \o LegacyPathRef(T2, AbSvg)}

PerPageRefs == {PerPageRef(T2, n) : n \in AssetPages}

TemplateOnlyRefs == {TemplateOnlyRef(t) : t \in {T1, T2, T9}}

\* file names legacy references end in
LegacyNames == {AbSvg, AUnderBSvg, <<"A", "B", ".", "s", "v", "g">>, <<"z", "z", ".", "s", "v", "g">>, <<"p", "a", "g", "e", "_", "1", ".", "s", "v", "g">>}

LegacyRefs ==
    {LegacyPathRef(T2, f) : f \in LegacyNames}
        \cup {<<"/">> \o LegacyPathRef(T2, AbSvg)}

\* references of no accepted shape
OtherRefs ==
    {<<"f", "t", "p", ":", "/", "/", "h", "/", "b", "g", ".", "s", "v", "g">>,
     <<"h", "t", "t", "p", ":", "/", "/", "h">> \o TemplateOnlyRef(T2),
     <<"x">> \o LegacyPathRef(T2, AbSvg),
     Tail(PerPageRef(T2, 1)),
     TemplateOnlyRef(T2) \o <<"/", "t", "h", "u", "m", "b">>,
     PerPageRef(T2, 1) \o <<"/", "x">>,
     LegacyPathRef(T2, <<"o", "l", "d", "/">> \o AbSvg)}

Refs == {<<>>} \cup EmbeddedRefs \cup PerPageRefs \cup TemplateOnlyRefs
            \cup LegacyRefs \cup OtherRefs

InitResolve ==
    /\ fieldRows = WithIDs(<<Field("k1", 0, Pos1, PlainStyle)>>)
    /\ svgRows \in AssetStores
    /\ gcs = StoreFor(svgRows)
    /\ templates \in {[t \in {T1, T2} |->
                          [SVGBackground |-> IF t = T1 THEN ref ELSE TemplateOnlyRef(T2)]] :
                        ref \in Refs}
    /\ req \in {Request(t, PageData, EmptyMap, EmptyMap, <<>>) : t \in {T1, T2}}
    /\ html = NoHTML
    /\ resp = NoResponse
    /\ calls = <<>>
    /\ jobs = NoJobs
    /\ engines = <<>>
    /\ submissions = NoSubmissions
    /\ clock = 0
    /\ autoInc = NoKeys
    /\ writes = NoWrites

SpecResolve == InitResolve /\ [][Next]_vars

\* the reference the legacy render of T1 resolves
Ref == templates[T1].SVGBackground

\* that render has been answered
Resolved == Responded /\ req.TemplateID = T1

\* the svg_files rows of a template and page
PageRows(templateID, n) ==
    SelectSeq(svgRows, LAMBDA r : r.TemplateID = templateID /\ r.PageIndex = n)

\* the render failed in convertToDataURI for the given reason
AbortedWith(cause) ==
    /\ html.err = "failed to convert SVG to data URI"
    /\ html.cause = cause
    /\ html.pages = <<>>
    /\ resp = [status |-> 500, error |-> "Failed to generate HTML"]

\* the render shows the bytes of one object as its background, after one lookup
ShowsObject(path) ==
    /\ calls[1].path = path
    /\ IF calls[1].err
       THEN calls[1].answer = "error" /\ AbortedWith("failed to get SVG content")
       ELSE /\ calls[1].content = gcs[path]
            /\ html.err = "none"
            /\ html.pages[1].background = DataURI(gcs[path])

\* C11: a reference that begins with "data:" is the background as it stands,
\* whatever follows the scheme, and no asset is looked up or fetched for it.
C11_EmbeddedReferenceReturnedAsIs ==
    Resolved /\ HasPrefix(Ref, DataScheme) =>
        /\ html.err = "none"
        /\ html.pages[1].background = Ref
        /\ calls = <<>>

\* C11 witness: "data:/api/files/svg/T2", with assets stored for T2, has been
\* resolved to itself.
C11_Witness ==
    /\ Resolved
    /\ Ref = DataScheme \o TemplateOnlyRef(T2)
    /\ svgRows # <<>>
    /\ html.pages[1].background = Ref
    /\ calls = <<>>

\* C12: resolving "/api/files/svg/T2/page/N" when T2 has a PageBackground for
\* page N makes the lookup page_N and shows the bytes stored for (T2, N), the
\* same bytes the render of T2 itself fetches for its page N.
C12_PerPageReferenceRoundTrip ==
    /\ \A n \in AssetPages :
          Resolved /\ Ref = PerPageRef(T2, n) /\ PageRows(T2, n) # <<>> =>
              /\ Len(calls) = 1
              /\ calls[1].templateID = T2
              /\ calls[1].svgID = PagePrefix \o Itoa(n)
              /\ ShowsObject(PageRows(T2, n)[1].GCSPath)
    /\ Responded /\ req.TemplateID = T2 =>
          \A i \in 1..Len(html.pages) :
              LET pg == html.pages[i]
                  row == PageRows(T2, pg.pageIndex)[1]
              IN  PageRows(T2, pg.pageIndex) # <<>> =>
                      /\ Len(pg.calls) = 1
                      /\ pg.calls[1].svgID = PagePrefix \o Itoa(pg.pageIndex)
                      /\ pg.calls[1].path = row.GCSPath
                      /\ ~pg.calls[1].err => pg.background = DataURI(gcs[row.GCSPath])

\* C12 witness: T2 has two assets, the older one for page 2, and
\* "/api/files/svg/T2/page/2" has been resolved to the older one's bytes.
C12_Witness ==
    /\ Resolved
    /\ Ref = PerPageRef(T2, 2)
    /\ Len(svgRows) = 2
    /\ svgRows[1].PageIndex = 2
    /\ html.err = "none"
    /\ html.pages[1].background = DataURI(gcs[svgRows[1].GCSPath])

\* the row of a template created last
Newest(templateID) ==
    CHOOSE r \in Range(RowsOf(templateID)) :
        \A q \in Range(RowsOf(templateID)) : q.CreatedAt <= r.CreatedAt

\* C13: resolving "/api/files/svg/T" makes one lookup with no identifier and
\* shows the bytes of T's most recently created asset, whatever its page.
C13_TemplateOnlyReferenceIsMostRecent ==
    \A t \in {T1, T2, T9} :
        Resolved /\ Ref = TemplateOnlyRef(t) =>
            /\ Len(calls) = 1
            /\ calls[1].templateID = t
            /\ calls[1].svgID = <<>>
            /\ IF RowsOf(t) = <<>>
               THEN calls[1].answer = "none" /\ AbortedWith("failed to get SVG content")
               ELSE ShowsObject(Newest(t).GCSPath)

\* C13 witness: T2's newest asset is the one for page 2, an older one is for
\* page 0, and "/api/files/svg/T2" has been resolved to the newest one's bytes.
C13_Witness ==
    /\ Resolved
    /\ Ref = TemplateOnlyRef(T2)
    /\ Len(svgRows) = 2
    /\ svgRows[1].PageIndex = 0
    /\ svgRows[2].PageIndex = 2
    /\ html.err = "none"
    /\ html.pages[1].background = DataURI(gcs[svgRows[2].GCSPath])

\* a file name without its extension
RECURSIVE StripExtension(_)
StripExtension(name) ==
    IF name = <<>> \/ "." \notin Range(name) THEN name
    ELSE IF name[Len(name)] = "." THEN SubSeq(name, 1, Len(name) - 1)
    ELSE StripExtension(SubSeq(name, 1, Len(name) - 1))

\* the most recent asset of T2 whose stored file name contains the identifier
\* letter for letter, or T2's most recent asset when none does
NamedOrNewest(identifier) ==
    LET matching == {r \in Range(RowsOf(T2)) : Contains(r.Filename, identifier)}
    IN  IF matching = {} THEN Newest(T2)
        ELSE CHOOSE r \in matching : \A q \in matching : q.CreatedAt <= r.CreatedAt

\* C14: resolving "templates/T2/{filename}", with or without a leading slash,
\* shows the bytes of the most recent asset of T2 whose stored file name
\* contains {filename} without its extension as a case-sensitive substring, or
\* of T2's most recent asset when no file name does.
C14_LegacyReferenceBySubstring ==
    \A f \in LegacyNames, lead \in {<<>>, <<"/">>} :
        Resolved /\ Ref = lead \o LegacyPathRef(T2, f) /\ RowsOf(T2) # <<>> =>
            /\ Len(calls) = 1
            /\ calls[1].templateID = T2
            /\ ShowsObject(NamedOrNewest(StripExtension(f)).GCSPath)

\* the segments of a reference
Segments(url) == Split(url, "/")

NoEmptySegment(parts) == \A i \in 1..Len(parts) : parts[i] # <<>>

\* "/api/files/svg/{T}/page/{N}"
IsPerPageShape(url) ==
    /\ Len(Segments(url)) = 7
    /\ SubSeq(Segments(url), 1, 4) = Segments(SubSeq(ApiFilesSvg, 1, Len(ApiFilesSvg) - 1))
    /\ Segments(url)[6] = <<"p", "a", "g", "e">>
    /\ Segments(url)[5] # <<>>
    /\ Atoi(Segments(url)[7]).ok

\* "/api/files/svg/{T}"
IsTemplateOnlyShape(url) ==
    /\ Len(Segments(url)) = 5
    /\ SubSeq(Segments(url), 1, 4) = Segments(SubSeq(ApiFilesSvg, 1, Len(ApiFilesSvg) - 1))
    /\ Segments(url)[5] # <<>>

\* "templates/{T}/{filename}", with or without a leading slash
IsLegacyShape(url) ==
    LET parts == Segments(TrimPrefix(url, <<"/">>))
    IN  /\ Len(parts) = 3
        /\ parts[1] = <<"t", "e", "m", "p", "l", "a", "t", "e", "s">>
        /\ NoEmptySegment(parts)

IsAcceptedShape(url) ==
    \/ HasPrefix(url, DataScheme)
    \/ IsPerPageShape(url)
    \/ IsTemplateOnlyShape(url)
    \/ IsLegacyShape(url)

\* C15: a reference of none of the four shapes fails with a format error, no
\* asset is looked up or fetched for it, and the render is aborted.
C15_OtherShapesAreRejected ==
    Resolved /\ Ref # <<>> /\ ~IsAcceptedShape(Ref) =>
        /\ \/ AbortedWith("unsupported SVG URL format")
           \/ AbortedWith("invalid SVG URL format")
        /\ calls = <<>>

\* C16: a GetSVGContent call returns an error and no bytes when the template
\* has no asset record at all (nothing is fetched then) and when the store does
\* not serve the object of the record found; it returns bytes, those of that
\* object, only when a record of the template was found and its fetch answered
\* 200.
C16_LookupErrors ==
    \A i \in 1..Len(calls) :
        LET c == calls[i]
        IN  /\ c.err <=> (RowsOf(c.templateID) = <<>> \/ c.answer = "error")
            /\ RowsOf(c.templateID) = <<>> <=> c.answer = "none"
            /\ c.err => c.content = NoBytes
            /\ ~c.err =>
                  /\ c.answer = "200"
                  /\ \E r \in Range(RowsOf(c.templateID)) : r.GCSPath = c.path
                  /\ c.content = gcs[c.path]

\* C16 witness: the render of T2 has fetched two PageBackgrounds; the store
\* served one and failed for the other.
C16_Witness ==
    /\ Responded
    /\ Len(calls) = 2
    /\ calls[1].answer = "200" /\ ~calls[1].err /\ calls[1].content # NoBytes
    /\ calls[2].answer = "error" /\ calls[2].err /\ calls[2].content = NoBytes

(***************************************************************************)
(* SpecConcurrent: two generate-pdf requests served at once, each by its    *)
(* own goroutine, step by step: template lookup, HTML generation, and       *)
(* htmlToPDF's acquisition of the engine, its run and its deferred cancels. *)
(***************************************************************************)
Workers == {"w1", "w2"}

\* how chromedp.Run ends: with no error, with the error of the step that
\* failed, or with the 30 s deadline of the context
Outcomes == {"ok", "launch", "navigate", "wait", "print", "deadline"}

\* the bytes page.PrintToPDF returns for a document
PrintToPDF(doc) == <<"%PDF", doc>>

\* bytes of a print that did not finish
PartialPDF == <<"%PDF">>

NoTemplate == [found |-> FALSE, ID |-> <<>>, SVGBackground |-> <<>>,
               Fields |-> <<>>, SVGFiles |-> <<>>]

NoResult == [err |-> FALSE, bytes |-> NoBytes]

JobResponse(status, error, body) == [status |-> status, error |-> error, body |-> body]

\* a request bound by c.ShouldBindJSON, nothing else done yet
Job(r) ==
    [pc |-> "bound", handler |-> "GeneratePDF", submissionID |-> <<>>, steps |-> <<>>,
     req |-> r, after |-> {}, template |-> NoTemplate,
     extended |-> NoTemplate, failing |-> {}, html |-> NoHTML,
     allocator |-> 0, context |-> 0, outcome |-> "none", runs |-> 0,
     pdfBytes |-> NoBytes, returned |-> NoResult,
     resp |-> JobResponse(0, "none", NoBytes)]

\* every goroutine reading the request of the first one
RequestOfFirst(w) == jobs["w1"].req

\* "var req GeneratePDFRequest": the handler's own request
RequestOf(w) == jobs[w].req

\* the template the last request to get that far has extended
SharedTemplate(w) ==
    IF \E v \in Workers \ {w} : jobs[v].extended.found
    THEN jobs[CHOOSE v \in Workers \ {w} : jobs[v].extended.found].extended
    ELSE jobs[w].template

\* "extendedTemplate := *template": a copy of the template this request loaded
OwnTemplate(w) == jobs[w].template

\* an allocation that hands out a live engine of the kind when there is one
AcquirePooled(engs, kind, w) ==
    IF \E i \in 1..Len(engs) : engs[i].kind = kind /\ engs[i].live THEN engs
    ELSE Append(engs, [kind |-> kind, owner |-> w, live |-> TRUE])

\* chromedp.NewExecAllocator, chromedp.NewContext: a new resource of the caller
Acquire(engs, kind, w) == Append(engs, [kind |-> kind, owner |-> w, live |-> TRUE])

\* the cancel function of a resource
Cancel(engs, id) == [engs EXCEPT ![id].live = FALSE]

\* a return that hands on whatever the print left in pdfBytes
ReturnedAsPrinted(pdfBytes, outcome) == [err |-> outcome # "ok", bytes |-> pdfBytes]

\* "if err != nil { return nil, ... }; return pdfBytes, nil"
Returned(pdfBytes, outcome) ==
    IF outcome # "ok" THEN [err |-> TRUE, bytes |-> NoBytes]
    ELSE [err |-> FALSE, bytes |-> pdfBytes]

Finished == {v \in Workers : jobs[v].pc = "done"}

\* templateService.GetByID and the 404 answer
Load(w) ==
    LET Loaded(job, template) ==
            IF template.found
            THEN [job EXCEPT !.pc = "loaded", !.template = template, !.after = Finished,
                             !.steps = Append(@, "template")]
            ELSE [job EXCEPT !.pc = "done", !.after = Finished,
                             !.steps = @ \o <<"template", "respond">>,
                             !.resp = JobResponse(404, "Template not found", NoBytes)]
    IN  /\ jobs[w].pc = "bound"
        /\ jobs' = [jobs EXCEPT ![w] = Loaded(@, GetByID(RequestOf(w).TemplateID))]
        /\ UNCHANGED <<submissions, clock, autoInc, writes>>
        /\ UNCHANGED <<templates, fieldRows, svgRows, gcs, req, html, resp, calls, engines>>

\* a handler that goes on whatever generateHTML returned
ErrorIgnored(htmlContent) == FALSE

\* "htmlContent, err := h.generateHTML(...); if err != nil"
Failed(htmlContent) == htmlContent.err # "none"

\* the custom fields, generateHTML and the 500 answer
Compose(w, failing) ==
    LET Composed(job, extended, htmlContent) ==
            IF Failed(htmlContent)
            THEN [job EXCEPT !.pc = "done", !.extended = extended, !.failing = failing,
                             !.html = Document(htmlContent),
                             !.steps = @ \o <<"compose", "respond">>,
                             !.resp = JobResponse(500, "Failed to generate HTML", NoBytes)]
            ELSE [job EXCEPT !.pc = "composed", !.extended = extended,
                             !.steps = Append(@, "compose"),
                             !.failing = failing, !.html = Document(htmlContent)]
        Generate(job, r, extended) ==
            Composed(job, extended,
                     generateHTML(extended, r.Data, r.FormattingData, r.HtmlData, failing))
        Extend(job, r, template) ==
            Generate(job, r,
                     [template EXCEPT
                         !.Fields = ExtendedFields(@, r.CustomFields, r.FormattingData)])
    IN  /\ jobs[w].pc = "loaded"
        /\ jobs' = [jobs EXCEPT ![w] = Extend(@, RequestOf(w), OwnTemplate(w))]
        /\ UNCHANGED <<submissions, clock, autoInc, writes>>
        /\ UNCHANGED <<templates, fieldRows, svgRows, gcs, req, html, resp, calls, engines>>

\* htmlToPDF: context.WithTimeout and chromedp.NewExecAllocator
NewExecAllocator(w) ==
    /\ jobs[w].pc = "composed"
    /\ engines' = Acquire(engines, "allocator", w)
    /\ jobs' = [jobs EXCEPT ![w].pc = "allocated", ![w].allocator = Len(engines')]
    /\ UNCHANGED <<submissions, clock, autoInc, writes>>
    /\ UNCHANGED <<templates, fieldRows, svgRows, gcs, req, html, resp, calls>>

\* htmlToPDF: chromedp.NewContext
NewContext(w) ==
    /\ jobs[w].pc = "allocated"
    /\ engines' = Acquire(engines, "context", w)
    /\ jobs' = [jobs EXCEPT ![w].pc = "context", ![w].context = Len(engines')]
    /\ UNCHANGED <<submissions, clock, autoInc, writes>>
    /\ UNCHANGED <<templates, fieldRows, svgRows, gcs, req, html, resp, calls>>

\* htmlToPDF: chromedp.Run of navigate, wait for body, print; once
Run(w, outcome, left) ==
    /\ jobs[w].pc = "context"
    /\ left # NoBytes => outcome \in {"print", "deadline"}
    /\ jobs' = [jobs EXCEPT ![w].pc = "ran", ![w].outcome = outcome,
                            ![w].steps = Append(@, "rasterize"),
                            ![w].runs = @ + 1,
                            ![w].pdfBytes = IF outcome = "ok" THEN PrintToPDF(jobs[w].html)
                                            ELSE left,
                            ![w].returned = Returned(IF outcome = "ok"
                                                     THEN PrintToPDF(jobs[w].html)
                                                     ELSE left, outcome)]
    /\ UNCHANGED <<submissions, clock, autoInc, writes>>
    /\ UNCHANGED <<templates, fieldRows, svgRows, gcs, req, html, resp, calls, engines>>

\* htmlToPDF returning: the deferred cancel of the browser context
CancelContext(w) ==
    /\ jobs[w].pc = "ran"
    /\ engines' = Cancel(engines, jobs[w].context)
    /\ jobs' = [jobs EXCEPT ![w].pc = "context cancelled"]
    /\ UNCHANGED <<submissions, clock, autoInc, writes>>
    /\ UNCHANGED <<templates, fieldRows, svgRows, gcs, req, html, resp, calls>>

\* htmlToPDF returning: the deferred cancel of the allocator, then the caller
CancelAllocator(w) ==
    /\ jobs[w].pc = "context cancelled"
    /\ engines' = Cancel(engines, jobs[w].allocator)
    /\ jobs' = [jobs EXCEPT ![w].pc = "returned"]
    /\ UNCHANGED <<submissions, clock, autoInc, writes>>
    /\ UNCHANGED <<templates, fieldRows, svgRows, gcs, req, html, resp, calls>>

\* the answer after htmlToPDF: 500 without a body, or the PDF
Respond(w) ==
    /\ jobs[w].pc = "returned"
    /\ jobs' = [jobs EXCEPT
                  ![w].pc = "done",
                  ![w].steps = Append(@, "respond"),
                  ![w].resp = IF jobs[w].returned.err
                              THEN JobResponse(500, "Failed to generate PDF", NoBytes)
                              ELSE JobResponse(200, "none", jobs[w].returned.bytes)]
    /\ UNCHANGED <<submissions, clock, autoInc, writes>>
    /\ UNCHANGED <<templates, fieldRows, svgRows, gcs, req, html, resp, calls, engines>>

\* a submission-pdf request: only the id of the path is known yet
SubmissionJob(id) ==
    [Job(Request(<<>>, EmptyMap, EmptyMap, EmptyMap, <<>>)) EXCEPT
        !.pc = "received", !.handler = "GeneratePDFFromSubmission", !.submissionID = id]

\* GeneratePDFFromSubmission: formService.GetByID and its 404 answer; the
\* render that follows takes the template and the data the submission names
LoadSubmission(w) ==
    LET Loaded(job, id) ==
            IF id \in DOMAIN submissions
            THEN [job EXCEPT !.pc = "bound", !.steps = Append(@, "submission"),
                             !.req = Request(submissions[id].TemplateID,
                                             submissions[id].FormData,
                                             submissions[id].HtmlData,
                                             submissions[id].FormattingData, <<>>)]
            ELSE [job EXCEPT !.pc = "done", !.after = Finished,
                             !.steps = @ \o <<"submission", "respond">>,
                             !.resp = JobResponse(404, "Form submission not found", NoBytes)]
    IN  /\ jobs[w].pc = "received"
        /\ jobs' = [jobs EXCEPT ![w] = Loaded(@, @.submissionID)]
        /\ UNCHANGED <<submissions, clock, autoInc, writes>>
        /\ UNCHANGED <<templates, fieldRows, svgRows, gcs, req, html, resp, calls, engines>>

\* the requests in flight: one with custom fields and overrides, one of the
\* same template with neither, one of another template, one of no template
WithCustomFields ==
    Request(T1, [k \in {"k1"} |-> StrV(Alice)], EmptyMap,
            [k \in {"k1"} |-> MapEntry(AllSetBag)], <<CustomWithFormatting>>)

Stored == Request(T1, PageData, [k \in {"k1"} |-> StrV(HtmlMarkup)], EmptyMap, <<>>)

OtherTemplate == Request(T2, PageData, EmptyMap, EmptyMap, <<CustomBare>>)

Missing == Request(T9, PageData, EmptyMap, EmptyMap, <<>>)

ConcurrentRequests == {WithCustomFields, Stored, OtherTemplate, Missing}

InitConcurrent ==
    /\ fieldRows = WithIDs(<<Field("k1", 0, Pos1, PlainStyle),
                             [Field("k1", 0, Pos2, PlainStyle) EXCEPT !.TemplateID = T2]>>)
    /\ svgRows \in {SVGFilesFor({}), SVGFilesFor({0})}
    /\ gcs = StoreFor(svgRows)
    /\ templates = [t \in {T1, T2} |->
                      [SVGBackground |-> IF t = T1 /\ svgRows # <<>>
                                         THEN LegacyRef ELSE <<>>]]
    /\ req = Stored
    /\ html = NoHTML
    /\ resp = NoResponse
    /\ calls = <<>>
    /\ jobs \in [Workers -> {Job(r) : r \in ConcurrentRequests}]
    /\ engines = <<>>
    /\ submissions = NoSubmissions
    /\ clock = 0
    /\ autoInc = NoKeys
    /\ writes = NoWrites

NextConcurrent ==
    \E w \in Workers :
        \/ Load(w)
        \/ \E failing \in FailSets : Compose(w, failing)
        \/ NewExecAllocator(w)
        \/ NewContext(w)
        \/ \E outcome \in Outcomes, left \in {NoBytes, PartialPDF} : Run(w, outcome, left)
        \/ CancelContext(w)
        \/ CancelAllocator(w)
        \/ Respond(w)

SpecConcurrent == InitConcurrent /\ [][NextConcurrent]_vars

\* the job holds the live engine resource of that kind that it acquired itself
Holds(w, id, kind) ==
    /\ id \in 1..Len(engines)
    /\ engines[id] = [kind |-> kind, owner |-> w, live |-> TRUE]

OwnedBy(w) == {i \in 1..Len(engines) : engines[i].owner = w}

InHtmlToPDF == {"allocated", "context", "ran", "context cancelled"}

\* C17: every call of htmlToPDF acquires an allocator and a browser context of
\* its own, one of each, and has released both when it returns, whatever the
\* outcome of the run; no resource is handed to two requests, and a request
\* that is not inside htmlToPDF holds no live resource.
C17_EnginePairedPerCall ==
    \A w \in Workers :
        LET job == jobs[w] IN
        /\ job.pc \in InHtmlToPDF => Holds(w, job.allocator, "allocator")
        /\ job.pc \in {"context", "ran"} => Holds(w, job.context, "context")
        /\ job.pc \notin InHtmlToPDF => \A i \in OwnedBy(w) : ~engines[i].live
        /\ job.pc \in {"returned", "done"} /\ job.runs = 1 =>
               /\ {engines[i].kind : i \in OwnedBy(w)} = {"allocator", "context"}
               /\ Cardinality(OwnedBy(w)) = 2
        /\ \A v \in Workers \ {w} :
               /\ job.allocator # 0 => job.allocator # jobs[v].allocator
               /\ job.context # 0 => job.context # jobs[v].context

\* one request has returned from a run that hit the deadline, with both of its
\* resources released, while the other is still running on its own two
C17_Witness ==
    /\ jobs["w1"].pc = "done"
    /\ jobs["w1"].outcome = "deadline"
    /\ Cardinality(OwnedBy("w1")) = 2
    /\ \A i \in OwnedBy("w1") : ~engines[i].live
    /\ jobs["w2"].pc = "ran"
    /\ jobs["w2"].outcome = "ok"
    /\ \A i \in OwnedBy("w2") : engines[i].live
    /\ Cardinality(OwnedBy("w2")) = 2
    /\ jobs["w2"].allocator < jobs["w1"].context

\* C18: when the run fails at any step or the deadline expires, htmlToPDF
\* returns an error and no bytes, the run is not repeated and the handler
\* answers 500 without a body; bytes are returned and sent only after a run
\* in which every step succeeded, and then they are the whole PDF.
C18_NoPartialPDF ==
    \A w \in Workers :
        LET job == jobs[w] IN
        /\ job.runs <= 1
        /\ job.pc \in {"ran", "context cancelled", "returned", "done"} /\ job.runs = 1 =>
               IF job.outcome = "ok"
               THEN job.returned = [err |-> FALSE, bytes |-> PrintToPDF(job.html)]
               ELSE job.returned = [err |-> TRUE, bytes |-> NoBytes]
        /\ job.pc = "done" /\ job.runs = 1 =>
               IF job.outcome = "ok"
               THEN job.resp = JobResponse(200, "none", PrintToPDF(job.html))
               ELSE job.resp = JobResponse(500, "Failed to generate PDF", NoBytes)
        /\ job.resp.body # NoBytes => job.outcome = "ok" /\ job.resp.status = 200

\* a print that failed half way, answered with 500 and no body
C18_Witness ==
    /\ jobs["w1"].pc = "done"
    /\ jobs["w1"].outcome = "print"
    /\ jobs["w1"].pdfBytes = PartialPDF
    /\ jobs["w1"].resp = JobResponse(500, "Failed to generate PDF", NoBytes)
    /\ jobs["w2"].pc = "done"
    /\ jobs["w2"].outcome = "deadline"
    /\ jobs["w2"].resp.status = 500

Composed(w) == jobs[w].pc \notin {"bound", "loaded"} /\ jobs[w].template.found

\* the fields a render shows, page after page
FieldsShown(w) == Flatten([n \in 1..Len(jobs[w].html.pages) |-> jobs[w].html.pages[n].fields])

\* the stored fields of the job's template under the job's own overrides
StoredUnderOwnOverrides(w) ==
    fieldsWithFormatting(GetByID(jobs[w].req.TemplateID).Fields, jobs[w].req.FormattingData)

\* every render of a request without custom fields shows stored fields only,
\* with the stored attributes but for the request's own overrides
RendersOfStoredOnly ==
    \A w \in Workers :
        Composed(w) /\ jobs[w].req.CustomFields = <<>> =>
            /\ Len(FieldsShown(w)) <= Len(GetByID(jobs[w].req.TemplateID).Fields)
            /\ Range(FieldsShown(w)) \subseteq Range(StoredUnderOwnOverrides(w))

\* C19: no step of a render changes the stored templates, fields, page
\* backgrounds or objects, whatever overrides and custom fields it carries,
\* and a render without custom fields, also one that starts after a render
\* with custom fields and overrides of the same template has finished, shows
\* the stored fields only, with their stored attributes.
C19_RenderPersistsNothing ==
    [][/\ UNCHANGED <<templates, fieldRows, svgRows, gcs>>
       /\ RendersOfStoredOnly']_vars

\* a render of T1 with a custom field and overrides has answered 200; a render
\* of T1 without either, begun after that, shows the one stored field as stored
C19_Witness ==
    /\ jobs["w1"].req = WithCustomFields
    /\ jobs["w1"].pc = "done"
    /\ jobs["w1"].resp.status = 200
    /\ Len(FieldsShown("w1")) = 2
    /\ FieldsShown("w1")[1].FontWeight = OverrideValue["fontWeight"]
    /\ FieldsShown("w1")[2].PositionTop = 5
    /\ jobs["w2"].req = Stored
    /\ "w1" \in jobs["w2"].after
    /\ Composed("w2")
    /\ FieldsShown("w2") = GetByID(T1).Fields

\* the document the request of a job yields when it is the only one served:
\* GeneratePDF on the stored template, with the objects that failed for the job
Alone(w) ==
    LET Generate(r, template) ==
            Document(generateHTML(
                [template EXCEPT
                    !.Fields = ExtendedFields(@, r.CustomFields, r.FormattingData)],
                r.Data, r.FormattingData, r.HtmlData, jobs[w].failing))
    IN  Generate(jobs[w].req, GetByID(jobs[w].req.TemplateID))

\* C20: however the steps of two concurrent requests interleave, the HTML of
\* each is the HTML its own request yields when served alone, and a request is
\* answered 404 exactly when its own template is not stored.
C20_ConcurrentRendersAreIndependent ==
    \A w \in Workers :
        /\ Composed(w) => jobs[w].html = Alone(w)
        /\ jobs[w].pc # "bound" =>
               jobs[w].template.found = GetByID(jobs[w].req.TemplateID).found
        /\ jobs[w].pc # "bound" /\ ~jobs[w].template.found =>
               jobs[w].html = NoHTML /\ jobs[w].resp.status = 404

\* two requests of the same template, one with a custom field and overrides,
\* are both inside htmlToPDF, neither begun after the other ended, and their
\* documents differ
C20_Witness ==
    /\ jobs["w1"].req = WithCustomFields
    /\ jobs["w2"].req = Stored
    /\ jobs["w1"].pc = "ran"
    /\ jobs["w2"].pc = "context"
    /\ jobs["w1"].after = {}
    /\ jobs["w2"].after = {}
    /\ jobs["w1"].html.err = "none"
    /\ jobs["w2"].html.err = "none"
    /\ jobs["w1"].html # jobs["w2"].html
    /\ Len(FieldsShown("w1")) > Len(FieldsShown("w2"))

(***************************************************************************)
(* SpecPipeline: the order of the steps of generate-pdf and submission-pdf. *)
(* Two requests, each of either handler, are served step by step; with no   *)
(* page background stored, the legacy reference of T1 resolves to nothing   *)
(* and composition fails.                                                   *)
(***************************************************************************)
\* ids of stored submissions (uuid.New().String() in FormHandler.Submit) and
\* an id no submission has
S1 == <<"s", "1">>

S2 == <<"s", "2">>

S9 == <<"s", "9">>

\* a row of form_submissions
Submission(templateID, formData) ==
    [TemplateID |-> templateID, FormData |-> formData,
     FormattingData |-> EmptyMap, HtmlData |-> EmptyMap]

PipelineJobs ==
    {Job(r) : r \in {Stored, Missing}} \cup {SubmissionJob(id) : id \in {S1, S2, S9}}

InitPipeline ==
    /\ fieldRows = WithIDs(<<Field("k1", 0, Pos1, PlainStyle)>>)
    /\ svgRows \in {SVGFilesFor({}), SVGFilesFor({0})}
    /\ gcs = StoreFor(svgRows)
    /\ templates = [t \in {T1} |-> [SVGBackground |-> LegacyRef]]
    /\ req = Stored
    /\ html = NoHTML
    /\ resp = NoResponse
    /\ calls = <<>>
    /\ jobs \in [Workers -> PipelineJobs]
    /\ engines = <<>>
    /\ submissions = [id \in {S1, S2} |->
                        IF id = S1 THEN Submission(T1, PageData)
                        ELSE Submission(T9, PageData)]
    /\ clock = 0
    /\ autoInc = NoKeys
    /\ writes = NoWrites

NextPipeline ==
    \E w \in Workers :
        \/ LoadSubmission(w)
        \/ Load(w)
        \/ \E failing \in FailSets : Compose(w, failing)
        \/ NewExecAllocator(w)
        \/ NewContext(w)
        \/ \E outcome \in {"ok", "navigate", "deadline"} : Run(w, outcome, NoBytes)
        \/ CancelContext(w)
        \/ CancelAllocator(w)
        \/ Respond(w)

SpecPipeline == InitPipeline /\ [][NextPipeline]_vars

\* the steps of a handler in the order of its code
StepsOf(handler) ==
    IF handler = "GeneratePDFFromSubmission"
    THEN <<"submission", "template", "compose", "rasterize">>
    ELSE <<"template", "compose", "rasterize">>

IsPrefix(p, q) == Len(p) <= Len(q) /\ SubSeq(q, 1, Len(p)) = p

Responses(w) == SelectSeq(jobs[w].steps, LAMBDA x : x = "respond")

Work(w) == SelectSeq(jobs[w].steps, LAMBDA x : x # "respond")

NotFound(w) ==
    \/ jobs[w].handler = "GeneratePDFFromSubmission"
          /\ jobs[w].submissionID \notin DOMAIN submissions
    \/ "template" \in Range(jobs[w].steps) /\ jobs[w].req.TemplateID \notin DOMAIN templates

\* C21: in both handlers the steps run in the order lookup, composition,
\* rasterization, response, and a request is answered once, at its end: with
\* 404 and neither composition nor rasterization when the submission or the
\* template is not found, without rasterization when composition failed, and
\* with the PDF only after composition and rasterization both succeeded.
C21_StepsInOrderOneResponse ==
    \A w \in Workers :
        LET job == jobs[w] IN
        /\ IsPrefix(Work(w), StepsOf(job.handler))
        /\ Len(Responses(w)) = IF job.pc = "done" THEN 1 ELSE 0
        /\ job.pc = "done" => job.steps[Len(job.steps)] = "respond"
        /\ job.pc = "done" /\ NotFound(w) =>
               /\ job.resp.status = 404
               /\ Range(job.steps) \cap {"compose", "rasterize"} = {}
        /\ job.pc = "done" /\ job.resp.status = 404 => NotFound(w)
        /\ job.html.err # "none" =>
               /\ "rasterize" \notin Range(job.steps)
               /\ job.pc = "done" /\ job.resp.status = 500
        /\ job.resp.status = 200 =>
               /\ Work(w) = StepsOf(job.handler)
               /\ job.html.err = "none"
               /\ job.outcome = "ok"
               /\ job.resp.body = PrintToPDF(job.html)
        /\ job.pc = "done" /\ job.resp.status # 200 => job.resp.body = NoBytes

\* a submission whose template is gone has been answered 404 after two
\* lookups, and a submission of a stored template with its PDF after all steps
C21_Witness ==
    /\ jobs["w1"] = [jobs["w1"] EXCEPT !.submissionID = S2, !.pc = "done"]
    /\ jobs["w1"].steps = <<"submission", "template", "respond">>
    /\ jobs["w1"].resp.status = 404
    /\ jobs["w2"] = [jobs["w2"] EXCEPT !.submissionID = S1, !.pc = "done"]
    /\ jobs["w2"].steps = <<"submission", "template", "compose", "rasterize", "respond">>
    /\ jobs["w2"].resp.status = 200

\* the emitted pages that show the stored field with that key
PagesShowing(id) ==
    {n \in 1..Len(html.pages) :
        \E j \in 1..Len(html.pages[n].fields) : html.pages[n].fields[j].ID = id}

\* C27: in a multi-page render every field of the template appears in exactly
\* one emitted page, the page of its own page index, whatever that index is.
C27_EveryFieldOnItsPage ==
    html.path = "multi" =>
        \A i \in 1..Len(TmplData.Fields) :
            /\ Cardinality(PagesShowing(TmplData.Fields[i].ID)) = 1
            /\ \A n \in PagesShowing(TmplData.Fields[i].ID) :
                  html.pages[n].pageIndex = TmplData.Fields[i].PageIndex

\* C28: a GetSVGContent call with the identifier page_N fetches only an
\* asset stored for page N of the template; when the template has none for
\* page N the call is an error and no object is fetched.
C28_PerPageLookupStaysOnItsPage ==
    \A i \in 1..Len(calls) : \A n \in AssetPages :
        calls[i].svgID = PagePrefix \o Itoa(n) =>
            IF PageRows(calls[i].templateID, n) = <<>>
            THEN calls[i].err /\ calls[i].path = <<>>
            ELSE calls[i].path = PageRows(calls[i].templateID, n)[1].GCSPath

(***************************************************************************)
(* Writes to the store: UploadSVG, DeleteSVGFile, the template handlers.    *)
(* A caller runs one call at a time, statement by statement; the locals of  *)
(* its last call stay in its record after the call has returned.            *)
(***************************************************************************)
MaxCalls == 3   \* calls begun in a behaviour
MaxClock == 1   \* seconds that pass in a behaviour

NoUpdate == [SVGBackground |-> <<>>, Fields |-> <<>>]

Idle ==
    [pc |-> "idle", op |-> "none", begun |-> 0, past |-> {}, ok |-> TRUE, trace |-> <<>>,
     templateID |-> <<>>, pageIndex |-> 0, filename |-> <<>>, content |-> NoBytes,
     objectName |-> <<>>, existing |-> NoRow, svgFile |-> NoRow,
     svgFileID |-> 0, template |-> NoTemplate, update |-> NoUpdate]

Begun == LET Sum[S \in SUBSET DOMAIN writes] ==
                 IF S = {} THEN 0
                 ELSE LET c == CHOOSE x \in S : TRUE
                      IN writes[c].begun + Sum[S \ {c}]
         IN  Sum[DOMAIN writes]

\* a new call of the caller: fresh locals, one more call begun
Call0(c, op) ==
    [Idle EXCEPT !.op = op, !.pc = op, !.begun = writes[c].begun + 1,
                 !.past = writes[c].past \cup {op}]

Effect(kind, what) == [kind |-> kind, what |-> what]

\* filepath.Ext: the suffix from the last dot of the name on, "" without a dot
Ext(name) ==
    LET dots == {i \in 1..Len(name) : name[i] = "."}
    IN  IF dots = {} THEN <<>> ELSE SubSeq(name, Max(dots), Len(name))

\* bucket.Object(name).NewWriter: the object is created or overwritten
Put(store, name, content) == [o \in DOMAIN store \cup {name} |->
                                 IF o = name THEN content ELSE store[o]]

\* bucket.Object(name).Delete
Remove(store, name) == [o \in DOMAIN store \ {name} |-> store[o]]

\* a delete that removes nothing
DeleteNothing(rows, id) == rows

\* DB.Delete(&row): the row with that primary key goes
DeleteByID(rows, id) == SelectSeq(rows, LAMBDA r : r.ID # id)

\* "scheme://host/api/files/svg/templateId", the URL UploadSVG answers with
FileURL(templateID) == <<"h", "t", "t", "p", ":", "/", "/", "h">> \o ApiFilesSvg \o templateID

AllUnchangedButStore ==
    UNCHANGED <<req, html, resp, calls, jobs, engines, submissions>>

\* time passes
Tick ==
    /\ clock < MaxClock
    /\ clock' = clock + 1
    /\ UNCHANGED <<templates, fieldRows, svgRows, gcs, autoInc, writes>>
    /\ AllUnchangedButStore

\* POST /upload/svg/:templateId with a file and a page index
BeginUploadSVG(c, templateID, pageIndex, filename, content) ==
    /\ writes[c].pc = "idle"
    /\ Begun < MaxCalls
    /\ writes' = [writes EXCEPT ![c] =
                    [Call0(c, "UploadSVG") EXCEPT
                        !.templateID = templateID, !.pageIndex = pageIndex,
                        !.filename = filename, !.content = content]]
    /\ UNCHANGED <<templates, fieldRows, svgRows, gcs, autoInc, clock>>
    /\ AllUnchangedButStore

\* UploadSVGWithPage: GenerateObjectName and gcsClient.UploadFile
UploadFile(c) ==
    LET Written(call, objectName) ==
            /\ gcs' = Put(gcs, objectName, call.content)
            /\ writes' = [writes EXCEPT
                            ![c].pc = "uploaded", ![c].objectName = objectName,
                            ![c].trace = Append(@, Effect("put", objectName))]
    IN  /\ writes[c].pc = "UploadSVG"
        /\ Written(writes[c],
                  GenerateObjectName(writes[c].templateID, clock, Ext(writes[c].filename)))
        /\ UNCHANGED <<templates, fieldRows, svgRows, autoInc, clock>>
        /\ AllUnchangedButStore

\* UploadSVGWithPage: Where("template_id = ? AND page_index = ?").First
FindExisting(c) ==
    LET Found(rows) ==
            writes' = [writes EXCEPT
                         ![c].existing = IF rows = <<>> THEN NoRow ELSE Head(rows),
                         ![c].pc = IF rows = <<>> THEN "to create" ELSE "found"]
    IN  /\ writes[c].pc = "uploaded"
        /\ Found(PageRows(writes[c].templateID, writes[c].pageIndex))
        /\ UNCHANGED <<templates, fieldRows, svgRows, gcs, autoInc, clock>>
        /\ AllUnchangedButStore

\* UploadSVGWithPage: gcsClient.DeleteFile(existingSVG.GCSPath), error ignored
DeleteExistingObject(c) ==
    /\ writes[c].pc = "found"
    /\ gcs' = Remove(gcs, writes[c].existing.GCSPath)
    /\ writes' = [writes EXCEPT
                    ![c].pc = "object deleted",
                    ![c].trace = Append(@, Effect("delete", writes[c].existing.GCSPath))]
    /\ UNCHANGED <<templates, fieldRows, svgRows, autoInc, clock>>
    /\ AllUnchangedButStore

\* UploadSVGWithPage: DB.Delete(&existingSVG)
DeleteExistingRow(c) ==
    /\ writes[c].pc = "object deleted"
    /\ svgRows' = DeleteByID(svgRows, writes[c].existing.ID)
    /\ writes' = [writes EXCEPT
                    ![c].pc = "to create",
                    ![c].trace = Append(@, Effect("delete row", writes[c].existing.ID))]
    /\ UNCHANGED <<templates, fieldRows, gcs, autoInc, clock>>
    /\ AllUnchangedButStore

\* UploadSVGWithPage: DB.Create(svgFile) and the return to the handler, which
\* goes on to the template for page 0 only
Create(c) ==
    LET Created(call, svgFile) ==
            /\ svgRows' = Append(svgRows, svgFile)
            /\ autoInc' = [autoInc EXCEPT !.svg_files = svgFile.ID]
            /\ writes' = [writes EXCEPT
                            ![c].pc = IF call.pageIndex = 0 THEN "created" ELSE "idle",
                            ![c].svgFile = svgFile,
                            ![c].trace = Append(@, Effect("create row", svgFile.ID))]
    IN  /\ writes[c].pc = "to create"
        /\ Created(writes[c],
                   [ID |-> autoInc.svg_files + 1, TemplateID |-> writes[c].templateID,
                    PageIndex |-> writes[c].pageIndex, Filename |-> writes[c].filename,
                    OriginalName |-> writes[c].filename,
                    GCSPath |-> writes[c].objectName, CreatedAt |-> clock])
        /\ UNCHANGED <<templates, fieldRows, gcs, clock>>
        /\ AllUnchangedButStore

\* rows in primary-key order
RECURSIVE SortByID(_)
SortByID(rows) ==
    IF rows = <<>> THEN <<>>
    ELSE LET m == CHOOSE r \in Range(rows) : \A q \in Range(rows) : r.ID <= q.ID
         IN  <<m>> \o SortByID(SelectSeq(rows, LAMBDA r : r # m))

\* tx.Create(&template.Fields[i]) for every field: a field without a key gets
\* the next one, a field read from the table is inserted under its own key
RECURSIVE CreateFields(_, _, _, _)
CreateFields(rows, counter, id, fields) ==
    IF fields = <<>> THEN [rows |-> SortByID(rows), counter |-> counter]
    ELSE LET key == IF Head(fields).ID = 0 THEN counter + 1 ELSE Head(fields).ID
         IN  CreateFields(Append(rows, [Head(fields) EXCEPT !.ID = key, !.TemplateID = id]),
                          IF key > counter THEN key ELSE counter, id, Tail(fields))

\* tx.Model(template).Updates(template): the non-zero columns of the row
UpdateRow(db, template) ==
    [db EXCEPT !.templates =
        IF template.ID \in DOMAIN @ /\ template.SVGBackground # <<>>
        THEN [@ EXCEPT ![template.ID].SVGBackground = template.SVGBackground]
        ELSE @]

\* TemplateService.Update: in one transaction, Updates(template) writes the
\* non-zero columns of the row, then the template's fields are deleted and
\* the fields of the argument created
Update(db, template) ==
    LET Recreated(created) ==
            [UpdateRow(db, template) EXCEPT
                !.fieldRows = created.rows,
                !.autoInc = [@ EXCEPT !.template_fields = created.counter]]
    IN  Recreated(CreateFields(SelectSeq(db.fieldRows,
                                         LAMBDA f : f.TemplateID # template.ID),
                               db.autoInc.template_fields, template.ID, template.Fields))

\* the tables a transaction works on
DB == [templates |-> templates, fieldRows |-> fieldRows, svgRows |-> svgRows,
       autoInc |-> autoInc]

Commit(db) ==
    /\ templates' = db.templates
    /\ fieldRows' = db.fieldRows
    /\ svgRows' = db.svgRows
    /\ autoInc' = db.autoInc

\* UploadSVG, page 0: templateService.GetByID
ReadTemplate(c) ==
    LET Read(template) ==
            writes' = [writes EXCEPT
                         ![c].pc = IF template.found THEN "read" ELSE "idle",
                         ![c].template = template]
    IN  /\ writes[c].pc = "created"
        /\ Read(GetByID(writes[c].templateID))
        /\ UNCHANGED <<templates, fieldRows, svgRows, gcs, autoInc, clock>>
        /\ AllUnchangedButStore

\* UploadSVG, page 0: template.SVGBackground = fileURL and templateService.Update
WriteTemplate(c) ==
    /\ writes[c].pc = "read"
    /\ Commit(Update(DB, [writes[c].template EXCEPT
                             !.SVGBackground = FileURL(writes[c].templateID)]))
    /\ writes' = [writes EXCEPT ![c].pc = "idle"]
    /\ UNCHANGED <<gcs, clock>>
    /\ AllUnchangedButStore

\* DELETE of an svg file by its id
BeginDeleteSVGFile(c, svgFileID) ==
    /\ writes[c].pc = "idle"
    /\ Begun < MaxCalls
    /\ writes' = [writes EXCEPT ![c] =
                    [Call0(c, "DeleteSVGFile") EXCEPT !.svgFileID = svgFileID]]
    /\ UNCHANGED <<templates, fieldRows, svgRows, gcs, autoInc, clock>>
    /\ AllUnchangedButStore

\* DeleteSVGFileByID: Where("id = ?").First; no row, nothing to do
FindSVGFile(c) ==
    LET Found(rows) ==
            writes' = [writes EXCEPT
                         ![c].existing = IF rows = <<>> THEN NoRow ELSE Head(rows),
                         ![c].pc = IF rows = <<>> THEN "idle" ELSE "file found"]
    IN  /\ writes[c].pc = "DeleteSVGFile"
        /\ Found(SelectSeq(svgRows, LAMBDA r : r.ID = writes[c].svgFileID))
        /\ UNCHANGED <<templates, fieldRows, svgRows, gcs, autoInc, clock>>
        /\ AllUnchangedButStore

\* DeleteSVGFileByID: gcsClient.DeleteFile; an error (the object is not there)
\* ends the call with the row in place
DeleteObject(c) ==
    /\ writes[c].pc = "file found"
    /\ gcs' = Remove(gcs, writes[c].existing.GCSPath)
    /\ writes' = IF writes[c].existing.GCSPath \in DOMAIN gcs
                 THEN [writes EXCEPT
                         ![c].pc = "file object deleted",
                         ![c].trace = Append(@, Effect("delete", writes[c].existing.GCSPath))]
                 ELSE [writes EXCEPT ![c].pc = "idle", ![c].ok = FALSE]
    /\ UNCHANGED <<templates, fieldRows, svgRows, autoInc, clock>>
    /\ AllUnchangedButStore

\* DeleteSVGFileByID: DB.Delete(&svgFile)
DeleteRow(c) ==
    /\ writes[c].pc = "file object deleted"
    /\ svgRows' = DeleteByID(svgRows, writes[c].existing.ID)
    /\ writes' = [writes EXCEPT
                    ![c].pc = "idle",
                    ![c].trace = Append(@, Effect("delete row", writes[c].existing.ID))]
    /\ UNCHANGED <<templates, fieldRows, gcs, autoInc, clock>>
    /\ AllUnchangedButStore

\* PUT /templates/:id with the body bound
BeginUpdate(c, id, update) ==
    /\ writes[c].pc = "idle"
    /\ Begun < MaxCalls
    /\ writes' = [writes EXCEPT ![c] =
                    [Call0(c, "Update") EXCEPT !.templateID = id, !.update = update]]
    /\ UNCHANGED <<templates, fieldRows, svgRows, gcs, autoInc, clock>>
    /\ AllUnchangedButStore

\* TemplateHandler.Update: existing, err := h.templateService.GetByID
CheckExisting(c) ==
    /\ writes[c].pc = "Update"
    /\ writes' = [writes EXCEPT ![c].pc = "checked",
                                ![c].template = GetByID(writes[c].templateID)]
    /\ UNCHANGED <<templates, fieldRows, svgRows, gcs, autoInc, clock>>
    /\ AllUnchangedButStore

\* TemplateService.Create: the row and its fields; a duplicate key is an error
CreateTemplate(db, template) ==
    LET Inserted(created) ==
            [db EXCEPT
                !.templates = Put(@, template.ID, [SVGBackground |-> template.SVGBackground]),
                !.fieldRows = created.rows,
                !.autoInc = [@ EXCEPT !.template_fields = created.counter]]
    IN  IF template.ID \in DOMAIN db.templates THEN db
        ELSE Inserted(CreateFields(db.fieldRows, db.autoInc.template_fields,
                                   template.ID, template.Fields))

\* TemplateHandler.Update: Create when the template was not there, Update when
\* it was
SaveTemplate(c) ==
    LET Save(call, template) ==
            /\ Commit(IF call.template.found THEN Update(DB, template)
                      ELSE CreateTemplate(DB, template))
            /\ writes' = [writes EXCEPT
                            ![c].pc = "idle",
                            ![c].ok = call.template.found \/ call.templateID \notin DOMAIN templates]
    IN  /\ writes[c].pc = "checked"
        /\ Save(writes[c], [ID |-> writes[c].templateID,
                            SVGBackground |-> writes[c].update.SVGBackground,
                            Fields |-> writes[c].update.Fields])
        /\ UNCHANGED <<gcs, clock>>
        /\ AllUnchangedButStore

\* DELETE /templates/:id
BeginDelete(c, id) ==
    /\ writes[c].pc = "idle"
    /\ Begun < MaxCalls
    /\ writes' = [writes EXCEPT ![c] = [Call0(c, "Delete") EXCEPT !.templateID = id]]
    /\ UNCHANGED <<templates, fieldRows, svgRows, gcs, autoInc, clock>>
    /\ AllUnchangedButStore

\* the statements of TemplateService.Delete, the failAt-th of which fails
\* (0: none): the tables as the statements before it left them
Delete(db, id, failAt) ==
    LET NoFields(d) ==
            [d EXCEPT !.fieldRows = SelectSeq(@, LAMBDA f : f.TemplateID # id)]
        NoSVGFiles(d) ==
            [d EXCEPT !.svgRows = SelectSeq(@, LAMBDA r : r.TemplateID # id)]
        NoRecord(d) == [d EXCEPT !.templates = Remove(@, id)]
    IN  [ok |-> failAt = 0,
         db |-> IF failAt = 1 THEN db
                ELSE IF failAt = 2 THEN NoFields(db)
                ELSE IF failAt = 3 THEN NoSVGFiles(NoFields(db))
                ELSE NoRecord(NoSVGFiles(NoFields(db)))]

\* statements run one by one with no transaction around them
Autocommit(db, result) == result.db

\* internal.DB.Transaction: commit when the function returns nil, roll back
\* when it returns an error
Transaction(db, result) == IF result.ok THEN result.db ELSE db

\* TemplateHandler.Delete: templateService.Delete and the answer
DeleteTemplate(c, failAt) ==
    LET Ended(result) ==
            /\ Commit(Transaction(DB, result))
            /\ writes' = [writes EXCEPT ![c].pc = "idle", ![c].ok = result.ok]
    IN  /\ writes[c].pc = "Delete"
        /\ Ended(Delete(DB, writes[c].templateID, failAt))
        /\ UNCHANGED <<gcs, clock>>
        /\ AllUnchangedButStore

(***************************************************************************)
(* SpecStore: one caller, so calls never overlap.  SpecRace: two callers,   *)
(* whose calls interleave statement by statement.                           *)
(***************************************************************************)
\* what an update of T1 sends: a new field set, with or without a background
NewFields == <<[Field("k2", 1, Pos2, PlainStyle) EXCEPT !.ID = 0]>>

Updates == {[SVGBackground |-> b, Fields |-> NewFields] : b \in {<<>>, LegacyRef}}

Contents == {Image(1), Image(2)}

UploadPages == {0, 1}

StoredRows ==
    <<[ID |-> 1, TemplateID |-> T2, PageIndex |-> 0, Filename |-> BgSvg,
       OriginalName |-> BgSvg, GCSPath |-> GenerateObjectName(T2, 0, DotSvg),
       CreatedAt |-> 0]>>

InitWrites(callers) ==
    /\ templates = [t \in {T1, T2} |-> [SVGBackground |-> <<>>]]
    /\ fieldRows = WithIDs(<<Field("k1", 0, Pos1, PlainStyle),
                             [Field("k1", 0, Pos2, PlainStyle) EXCEPT !.TemplateID = T2]>>)
    /\ svgRows = StoredRows
    /\ gcs = [o \in {StoredRows[1].GCSPath} |-> Image(0)]
    /\ req = Stored
    /\ html = NoHTML
    /\ resp = NoResponse
    /\ calls = <<>>
    /\ jobs = NoJobs
    /\ engines = <<>>
    /\ submissions = [id \in {S1, S2} |->
                        Submission(IF id = S1 THEN T1 ELSE T2, PageData)]
    /\ clock = 0
    /\ autoInc = [svg_files |-> 1, template_fields |-> 2]
    /\ writes = [c \in callers |-> Idle]

Callers == {"c1", "c2"}

\* the callers of a behaviour are those its initial state names
Calls(c) == c \in DOMAIN writes

NextWrites ==
    \/ Tick
    \/ \E c \in Callers :
        \/ \E pageIndex \in UploadPages, content \in Contents :
              Calls(c) /\ BeginUploadSVG(c, T1, pageIndex, BgSvg, content)
        \/ Calls(c) /\ UploadFile(c)
        \/ Calls(c) /\ FindExisting(c)
        \/ Calls(c) /\ DeleteExistingObject(c)
        \/ Calls(c) /\ DeleteExistingRow(c)
        \/ Calls(c) /\ Create(c)
        \/ Calls(c) /\ ReadTemplate(c)
        \/ Calls(c) /\ WriteTemplate(c)
        \/ \E svgFileID \in 1..(MaxCalls + 1) :
              Calls(c) /\ BeginDeleteSVGFile(c, svgFileID)
        \/ Calls(c) /\ FindSVGFile(c)
        \/ Calls(c) /\ DeleteObject(c)
        \/ Calls(c) /\ DeleteRow(c)
        \/ \E update \in Updates : Calls(c) /\ BeginUpdate(c, T1, update)
        \/ Calls(c) /\ CheckExisting(c)
        \/ Calls(c) /\ SaveTemplate(c)
        \/ \E id \in {T1, T2} : Calls(c) /\ BeginDelete(c, id)
        \/ \E failAt \in 0..3 : Calls(c) /\ DeleteTemplate(c, failAt)

InitStore == InitWrites({"c1"})

SpecStore == InitStore /\ [][NextWrites]_vars

InitRace == InitWrites({"c1", "c2"})

SpecRace == InitRace /\ [][NextWrites]_vars

\* no call is under way
Quiet == \A c \in DOMAIN writes : writes[c].pc = "idle"

PagesOf(templateID) == {r.PageIndex : r \in Range(RowsOf(templateID))}

OnePerPage ==
    \A t \in {T1, T2} : \A n \in PagesOf(t) : Len(PageRows(t, n)) = 1

Replaced(c) ==
    /\ writes[c].op = "UploadSVG"
    /\ writes[c].existing # NoRow
    /\ writes[c].svgFile # NoRow

\* the positions in the caller's trace of the effects of that kind
When(c, kind) == {i \in 1..Len(writes[c].trace) : writes[c].trace[i].kind = kind}

PriorAssetGone(c) ==
    /\ \A i \in 1..Len(svgRows) : svgRows[i].ID # writes[c].existing.ID
    /\ writes[c].existing.GCSPath \in DOMAIN gcs =>
           writes[c].existing.GCSPath = writes[c].objectName
    /\ When(c, "delete") # {} /\ When(c, "delete row") # {}

DeletedBeforeStored(c) ==
    \A i \in When(c, "delete") \cup When(c, "delete row") :
        \A j \in When(c, "put") \cup When(c, "create row") : i < j

ResolvesToUpload(c) ==
    GetSVGContent(writes[c].templateID, PagePrefix \o Itoa(writes[c].pageIndex), {})
        = [err |-> FALSE, content |-> writes[c].content, answer |-> "200",
           path |-> writes[c].objectName]

\* C23: when an upload replaces the background of a page, the prior asset's
\* bytes and row are both deleted, both before the new asset is stored, and
\* resolving the page afterwards yields the bytes of the new upload.
C23_ReplaceDeletesThenStores ==
    DOMAIN writes = {"c1"} /\ Quiet /\ Replaced("c1") =>
        /\ PriorAssetGone("c1")
        /\ DeletedBeforeStored("c1")
        /\ ResolvesToUpload("c1")

\* C26: after any sequence of uploads, replacements and deletions, every
\* PageBackground row references an object that is in the asset store, and no
\* two rows reference the same object, also when two uploads of a template get
\* the same generated object name.
C26_RowsReferenceTheirOwnObject ==
    DOMAIN writes = {"c1"} /\ Quiet =>
        /\ \A i \in 1..Len(svgRows) : svgRows[i].GCSPath \in DOMAIN gcs
        /\ \A i, j \in 1..Len(svgRows) :
               i # j => svgRows[i].GCSPath # svgRows[j].GCSPath

\* the step in which the caller's TemplateService.Delete runs and returns
DeleteReturns(c) == Calls(c) /\ writes[c].pc = "Delete" /\ writes'[c].pc = "idle"

NothingOf(id) ==
    /\ id \notin DOMAIN templates
    /\ \A i \in 1..Len(fieldRows) : fieldRows[i].TemplateID # id
    /\ \A i \in 1..Len(svgRows) : svgRows[i].TemplateID # id

\* C24: when TemplateService.Delete(id) succeeds, the template row and every
\* Field and PageBackground row of the template are gone; when one of its three
\* statements fails, the template, its fields and its PageBackground rows are
\* all as before; the form submissions stay as they are either way.
C24_DeleteIsAllOrNothing ==
    [][\A c \in Callers :
          DeleteReturns(c) =>
              /\ UNCHANGED submissions
              /\ IF writes'[c].ok THEN NothingOf(writes[c].templateID)'
                 ELSE UNCHANGED <<templates, fieldRows, svgRows>>]_vars

\* T1, with its field, an uploaded background and a submission, has been
\* deleted: nothing of it is left but the submission, and T2 is untouched
C24_Witness ==
    /\ DOMAIN writes = {"c1"}
    /\ Quiet
    /\ writes["c1"].op = "Delete"
    /\ writes["c1"].ok
    /\ writes["c1"].begun = 2
    /\ writes["c1"].templateID = T1
    /\ autoInc.svg_files = 2
    /\ NothingOf(T1)
    /\ submissions[S1].TemplateID = T1
    /\ T2 \in DOMAIN templates
    /\ svgRows = StoredRows

\* UploadSVGWithPage of the caller's last call has returned its row
Uploaded(c) == writes[c].op = "UploadSVG" /\ writes[c].svgFile # NoRow

\* C25: however two concurrent UploadSVGWithPage calls for the same template
\* and page interleave, at most one PageBackground row for that template and
\* page exists once both have returned.
C25_ConcurrentUploadsLeaveOneRow ==
    /\ DOMAIN writes = Callers
    /\ Uploaded("c1") /\ Uploaded("c2")
    /\ writes["c1"].templateID = writes["c2"].templateID
    /\ writes["c1"].pageIndex = writes["c2"].pageIndex
    => Len(PageRows(writes["c1"].templateID, writes["c1"].pageIndex)) <= 1

\* what generateHTML makes of a stored template and one value
RenderOf(templateID) ==
    generateHTML(GetByID(templateID), PageData, EmptyMap, EmptyMap, {})

RendersItsFields(h, template) ==
    /\ h.err = "none"
    /\ Len(Flatten([n \in 1..Len(h.pages) |-> h.pages[n].blocks])) = Len(template.Fields)
    /\ \A n \in 1..Len(h.pages) :
           PageRows(template.ID, h.pages[n].pageIndex) = <<>> =>
               h.pages[n].background = <<>>

\* C29: after any sequence of UploadSVG and DeleteSVGFile calls on a template
\* with a field, HTML generation for the template succeeds and renders its
\* fields, with a blank background where no asset is stored.
C29_DeletionKeepsTemplateRenderable ==
    /\ DOMAIN writes = {"c1"}
    /\ Quiet
    /\ writes["c1"].past \subseteq {"UploadSVG", "DeleteSVGFile"}
    => RendersItsFields(RenderOf(T1), GetByID(T1))

\* the step in which the caller's UploadSVG writes the template back
WritesBack(c) == Calls(c) /\ writes[c].pc = "read" /\ writes'[c].pc = "idle"

\* the other callers have only updated templates so far
OthersOnlyUpdate(c) ==
    \A d \in DOMAIN writes \ {c} : writes[d].past \subseteq {"Update"}

\* C30: the write-back of UploadSVG for page 0 changes the template's legacy
\* background reference only: the stored fields are after it what they were
\* before it, also when an Update of the template has completed since
\* UploadSVG read the template.
C30_UploadKeepsStoredFields ==
    [][\A c \in Callers :
          WritesBack(c) /\ OthersOnlyUpdate(c) =>
              /\ UNCHANGED <<fieldRows, svgRows>>
              /\ DOMAIN templates' = DOMAIN templates
              /\ \A t \in DOMAIN templates \ {writes[c].templateID} :
                     templates'[t] = templates[t]]_vars

====
